---- MODULE Spec2Model ----
(***************************************************************************)
(* A model of the private messenger: the PrivateMessenger ledger contract, *)
(* the message codec of the encrypt/decrypt hooks, and the composed        *)
(* useMessenger orchestrator (send, refreshInbox, batched decrypt).        *)
(*                                                                         *)
(* Three specifications share the variables:                               *)
(*   Spec           the ledger contract under arbitrary callers            *)
(*   SpecCodec      the codec functions applied to bounded texts           *)
(*   SpecMessenger  a sender client and a reader client over the ledger    *)
(***************************************************************************)
EXTENDS Integers, Sequences, FiniteSets, TLC

(***************************************************************************)
(* Bounds of the model.                                                    *)
(***************************************************************************)
\* stored messages per behaviour
MaxMsgs == 2
\* largest block timestamp / wall-clock day past the validity window
MaxTime == 1
\* longest text, in code points, drawn by the codec specification
MaxLen == 3
\* validity windows the wallet may take to sign
MaxWait == 2
\* keypairs the SDK generates in one run
MaxKeys == 2
\* createInstance invocations in one run
MaxInits == 2

(***************************************************************************)
(* Identities.  address(0) is the zero address.                            *)
(***************************************************************************)
ZeroAddress == "0x0"
Users == {"alice", "bob", "carol"}
Address == Users \cup {ZeroAddress}
\* address(this): the contract's own identity in the ACL (FHE.allowThis)
This == "contract"
\* the ciphertext handles a caller of the bare ledger may present
Handles == {1, 2}

VARIABLES
  \* ---- PrivateMessenger.sol
  _inbox,      \* mapping(address => Message[])
  _outbox,     \* mapping(address => Message[])
  acl,         \* the set of (handle, principal) grants made by FHE.allow*
  allowLog,    \* every FHE.allow* call made, in order
  events,      \* every MessageSent event emitted, in order
  blockTime,   \* block.timestamp
  lastCall,    \* the most recent sendMessage transaction and its outcome
  handlesCall, \* the most recent getInboxHandles call and what it returned
  \* ---- codec (useEncrypt / useDecrypt)
  cPc, cText, cWidth, cCodec, cPayload, cDecoded,
  \* ---- the encryption backend
  minted,        \* handle h was minted for minted[h] = [owner, text, payload]
  \* ---- one browser tab running the app (useWallet, useFhevm, core/fhevm)
  userAddress,   \* useWallet: address ("" when not connected)
  signer,        \* useWallet: whether a signer is held (null when FALSE)
  wallet,        \* useWallet: the rest of the hook's state, its connect call
                 \* in flight, and the provider (window.ethereum) it talks to
  isInitialized, \* useFhevm: status === "ready"
  fheInstance,   \* core/fhevm: whether the module-level instance is set
  \* ---- useMessenger.sendMessage, one call at a time
  sPc,           \* "idle" | "encrypting" | "submitting" | "waiting"
  sTo, sText,    \* the call's arguments
  sHandle,       \* encrypted.handles[0] (0 while there is none)
  sResult,       \* what the latest call returned: "none" | TRUE | FALSE
  sTxs,          \* ledger sendMessage transactions made by the latest call
  sEncFailed,    \* encryptString returned null in the latest call
  messageError,  \* useMessenger: messageError ("" for null)
  encryptError,  \* useEncrypt: error ("" for null)
  decryptError,  \* useDecrypt: error ("" for null)
  isEncrypting,  \* useEncrypt: isEncrypting
  isDecrypting,  \* useDecrypt: isDecrypting
  isLoadingMessages, \* useMessenger: isLoadingMessages
  \* ---- useMessenger: the inbox shown, refreshInbox, decryptAllInbox
  inbox,         \* Message[]: [sender, content, timestamp, encrypted, handle]
  rfPc,          \* refreshInbox: "idle" | "count" | "reading"
  rfCount,       \* refreshInbox: count
  rfMessages,    \* refreshInbox: messages
  rfUser,        \* refreshInbox: the userAddress its closure holds
  dPc,           \* decrypt: "idle" | "signing" | "redeeming"
  elapsed,       \* days of wall-clock time since startTimestamp was read
  dCall,         \* the latest useDecrypt.decrypt call and what it did
  \* ---- the relayer SDK
  keysMade,      \* keypairs generated so far by generateKeypair
  redeemLog,     \* the (publicKey, signature) of every userDecrypt call made
  core,          \* core/fhevm.ts: the module-level instance and the calls of
                 \* initializeFheInstance
  fhevm          \* useFhevm: the state of each mounted hook (instance, status,
                 \* error) and the initialize calls made on it

ledgerVars == <<_inbox, _outbox, acl, allowLog, events, blockTime, lastCall,
                handlesCall>>
codecVars == <<cPc, cText, cWidth, cCodec, cPayload, cDecoded>>
tabVars == <<userAddress, signer, wallet, isInitialized, fheInstance>>
senderVars == <<sPc, sTo, sText, sHandle, sResult, sTxs, sEncFailed>>
errorVars == <<messageError, encryptError, decryptError>>
loadingVars == <<isEncrypting, isDecrypting, isLoadingMessages>>
readerVars == <<inbox, rfPc, rfCount, rfMessages, rfUser, dPc, elapsed, dCall>>
sdkVars == <<keysMade, redeemLog, core>>
clientVars == <<minted, tabVars, senderVars, errorVars, loadingVars, readerVars,
                sdkVars, fhevm>>
vars == <<ledgerVars, codecVars, clientVars>>

(***************************************************************************)
(* PrivateMessenger.sol                                                    *)
(***************************************************************************)
\* What the most recent sendMessage transaction was asked and how it ended:
\* whether `to` was the zero address, whether it was msg.sender, the outcome.
NoCall == [toZero |-> FALSE, toSelf |-> FALSE, result |-> "none"]
CallRecord(msgSender, to, result) ==
  [toZero |-> to = ZeroAddress, toSelf |-> to = msgSender, result |-> result]

\* The two addressing checks that open sendMessage, in order.
Rejection_NoZeroCheck(msgSender, to) ==
  IF to = msgSender THEN "CannotMessageSelf" ELSE "ok"

Rejection_NoSelfCheck(msgSender, to) ==
  IF to = ZeroAddress THEN "InvalidRecipient" ELSE "ok"

Rejection(msgSender, to) ==
  IF to = ZeroAddress THEN "InvalidRecipient"
  ELSE IF to = msgSender THEN "CannotMessageSelf"
  ELSE "ok"

\* Message({sender, recipient, encryptedContent, timestamp})
NewMessage(msgSender, to, content) ==
  [sender |-> msgSender, recipient |-> to, encryptedContent |-> content,
   timestamp |-> blockTime]

\* FHE.allowThis(content); FHE.allow(content, msg.sender); FHE.allow(content, to)
Grants_Everyone(content, msgSender, to) ==
  <<<<content, This>>, <<content, msgSender>>, <<content, to>>,
    <<content, CHOOSE u \in Users : u # msgSender /\ u # to>> >>

Grants(content, msgSender, to) ==
  <<<<content, This>>, <<content, msgSender>>, <<content, to>> >>

Range(s) == {s[i] : i \in DOMAIN s}

\* _inbox[to].push(newMessage)
PushInbox_Front(to, m) == [_inbox EXCEPT ![to] = <<m>> \o @]

PushInbox_Overwrite(to, m) ==
  [_inbox EXCEPT ![to] = IF @ = <<>> THEN <<m>> ELSE [@ EXCEPT ![Len(@)] = m]]

PushInbox(to, m) == [_inbox EXCEPT ![to] = Append(@, m)]

\* _outbox[msg.sender].push(newMessage)
PushOutbox_Twice(msgSender, m) == [_outbox EXCEPT ![msgSender] = Append(Append(@, m), m)]

PushOutbox_ByRecipient(msgSender, m) == [_outbox EXCEPT ![m.recipient] = Append(@, m)]

PushOutbox(msgSender, m) == [_outbox EXCEPT ![msgSender] = Append(@, m)]

\* event MessageSent(address indexed from, address indexed to, uint256 timestamp)
MessageSent_Swapped(from, to, timestamp) ==
  [from |-> to, to |-> from, timestamp |-> timestamp]

MessageSent(from, to, timestamp) ==
  [from |-> from, to |-> to, timestamp |-> timestamp]

\* A reverted transaction leaves the contract's storage, the ACL and the log
\* as they were.
Revert(msgSender, to, why) ==
  /\ lastCall' = CallRecord(msgSender, to, why)
  /\ UNCHANGED <<_inbox, _outbox, acl, allowLog, events, handlesCall>>

\* function sendMessage(address to, externalEuint256 encryptedContent,
\*                      bytes calldata inputProof) external
\* proofValid: whether FHE.fromExternal accepts (encryptedContent, inputProof);
\* it reverts when it does not.
sendMessage(msgSender, to, encryptedContent, proofValid) ==
  IF Rejection(msgSender, to) # "ok"
    THEN Revert(msgSender, to, Rejection(msgSender, to))
  ELSE IF ~proofValid
    THEN Revert(msgSender, to, "InvalidProof")
  ELSE
    LET content == encryptedContent
        newMessage == NewMessage(msgSender, to, content)
    IN /\ _inbox' = PushInbox(to, newMessage)
       /\ _outbox' = PushOutbox(msgSender, newMessage)
       /\ allowLog' = allowLog \o Grants(content, msgSender, to)
       /\ acl' = acl \cup Range(Grants(content, msgSender, to))
       /\ events' = Append(events, MessageSent(msgSender, to, blockTime))
       /\ lastCall' = CallRecord(msgSender, to, "ok")
       /\ UNCHANGED handlesCall

\* The view functions, as functions of the storage they read.
InboxCountIn(stored, user) == Len(stored[user])
OutboxCountIn(stored, user) == Len(stored[user])

InboxMessageIn_LastIndexRejected(stored, user, index) ==
  IF ~(index + 1 < Len(stored[user])) THEN "revert"
  ELSE LET message == stored[user][index + 1]
       IN <<message.sender, message.encryptedContent, message.timestamp>>

\* returns (sender, encryptedContent, timestamp); "revert" when out of bounds
InboxMessageIn(stored, user, index) ==
  IF ~(index < Len(stored[user])) THEN "revert"
  ELSE LET message == stored[user][index + 1]
       IN <<message.sender, message.encryptedContent, message.timestamp>>

\* returns (recipient, encryptedContent, timestamp); "revert" when out of bounds
OutboxMessageIn(stored, user, index) ==
  IF ~(index < Len(stored[user])) THEN "revert"
  ELSE LET message == stored[user][index + 1]
       IN <<message.recipient, message.encryptedContent, message.timestamp>>

\* function getInboxHandles(address user) returns (euint256[] memory handles)
InboxHandlesIn_NewestFirst(stored, user) ==
  LET length == Len(stored[user])
  IN [i \in 1..length |-> stored[user][length + 1 - i].encryptedContent]

InboxHandlesIn(stored, user) ==
  LET length == Len(stored[user])
  IN [i \in 1..length |-> stored[user][i].encryptedContent]

getInboxCount(user) == InboxCountIn(_inbox, user)
getOutboxCount(user) == OutboxCountIn(_outbox, user)
getInboxMessage(user, index) == InboxMessageIn(_inbox, user, index)
getOutboxMessage(user, index) == OutboxMessageIn(_outbox, user, index)
getInboxHandles(user) == InboxHandlesIn(_inbox, user)

StoredMessages == Len(events)

\* no getInboxHandles call made yet
NoHandlesCall == [made |-> FALSE, user |-> ZeroAddress, atCount |-> 0, handles |-> <<>>]

\* ---- ledger actions
LedgerInit ==
  /\ _inbox = [a \in Address |-> <<>>]
  /\ _outbox = [a \in Address |-> <<>>]
  /\ acl = {}
  /\ allowLog = <<>>
  /\ events = <<>>
  /\ blockTime = 0
  /\ lastCall = NoCall
  /\ handlesCall = NoHandlesCall

\* The arguments a caller may pass besides `to`.  A reverted transaction
\* records nothing of the handle, so one handle stands for all of them there.
CallArgs(msgSender, to) ==
  IF Rejection(msgSender, to) # "ok"
    THEN {[handle |-> 1, proofValid |-> TRUE]}
    ELSE {[handle |-> h, proofValid |-> TRUE] : h \in Handles}
           \cup {[handle |-> 1, proofValid |-> FALSE]}

\* Any externally owned account calls sendMessage with any arguments.
SendTx ==
  \E msgSender \in Users, to \in Address :
    \E args \in CallArgs(msgSender, to) :
      /\ StoredMessages < MaxMsgs \/ Rejection(msgSender, to) # "ok"
           \/ ~args.proofValid
      /\ sendMessage(msgSender, to, args.handle, args.proofValid)
      /\ UNCHANGED <<blockTime, codecVars, fhevm, clientVars>>

\* Any account calls the view getInboxHandles(user) and keeps the array it
\* returns; atCount is what getInboxCount(user) returns in the same state.
HandlesCall ==
  \E user \in Users :
    /\ handlesCall' = [made |-> TRUE, user |-> user,
                       atCount |-> getInboxCount(user),
                       handles |-> getInboxHandles(user)]
    /\ UNCHANGED <<_inbox, _outbox, acl, allowLog, events, blockTime, lastCall,
                   codecVars, fhevm, clientVars>>

\* A later block: block.timestamp does not decrease.
NextBlock ==
  /\ blockTime < MaxTime
  /\ blockTime' = blockTime + 1
  /\ UNCHANGED <<_inbox, _outbox, acl, allowLog, events, lastCall, handlesCall,
                 codecVars, fhevm, clientVars>>

(***************************************************************************)
(* The message codec.  A text is a sequence of Unicode scalar values; a    *)
(* byte array is a sequence of 0..255; a BigInt is written as its          *)
(* big-endian base-256 digits with no leading zero digit, so that two      *)
(* BigInts are equal exactly when the sequences are.                       *)
(***************************************************************************)
\* U+0000, 'h', 'i', U+00E9 (two UTF-8 bytes), U+FEFF (three UTF-8 bytes)
CodePoints == {0, 104, 105, 233, 65279}
Replacement == 65533

RECURSIVE SeqsUpTo(_, _)
SeqsUpTo(S, n) ==
  IF n = 0 THEN {<<>>}
  ELSE LET shorter == SeqsUpTo(S, n - 1)
       IN shorter \cup {Append(t, c) : t \in shorter, c \in S}

\* n copies of the scalar value cp
RECURSIVE Repeat(_, _)
Repeat(cp, n) == IF n <= 0 THEN <<>> ELSE <<cp>> \o Repeat(cp, n - 1)

\* texts longer than 32 bytes: 33 times 'h'; eleven U+FEFF (33 bytes, the last
\* one cut by the truncation); 31 times 'h' and U+00E9 (cut after one byte)
LongTexts == {Repeat(104, 33), Repeat(65279, 11), Append(Repeat(104, 31), 233)}

Texts == SeqsUpTo(CodePoints, MaxLen) \cup LongTexts

RECURSIVE Zeros(_)
Zeros(n) == IF n <= 0 THEN <<>> ELSE <<0>> \o Zeros(n - 1)

\* UTF-8 encoding of one scalar value
Utf8Bytes(cp) ==
  IF cp < 128 THEN <<cp>>
  ELSE IF cp < 2048 THEN <<192 + (cp \div 64), 128 + (cp % 64)>>
  ELSE IF cp < 65536
    THEN <<224 + (cp \div 4096), 128 + ((cp \div 64) % 64), 128 + (cp % 64)>>
  ELSE <<240 + (cp \div 262144), 128 + ((cp \div 4096) % 64),
         128 + ((cp \div 64) % 64), 128 + (cp % 64)>>

\* new TextEncoder().encode(message)
RECURSIVE TextEncoderEncode(_)
TextEncoderEncode(message) ==
  IF message = <<>> THEN <<>>
  ELSE Utf8Bytes(Head(message)) \o TextEncoderEncode(Tail(message))

IsContinuation(b) == b >= 128 /\ b <= 191

\* The UTF-8 decoder of TextDecoder (not fatal): a malformed sequence yields
\* U+FFFD and decoding resumes after its maximal valid prefix.
RECURSIVE Utf8Decode(_, _)
Utf8Decode(bytes, i) ==
  IF i > Len(bytes) THEN <<>>
  ELSE
    LET b == bytes[i]
        has(k) == i + k <= Len(bytes)
        at(k) == bytes[i + k]
        lo == IF b = 224 THEN 160 ELSE IF b = 240 THEN 144 ELSE 128
        hi == IF b = 237 THEN 159 ELSE IF b = 244 THEN 143 ELSE 191
        second == has(1) /\ at(1) >= lo /\ at(1) <= hi
        bad(k) == <<Replacement>> \o Utf8Decode(bytes, i + k)
    IN
      IF b < 128 THEN <<b>> \o Utf8Decode(bytes, i + 1)
      ELSE IF b >= 194 /\ b <= 223 THEN
        IF second
          THEN <<(b - 192) * 64 + (at(1) - 128)>> \o Utf8Decode(bytes, i + 2)
          ELSE bad(1)
      ELSE IF b >= 224 /\ b <= 239 THEN
        IF ~second THEN bad(1)
        ELSE IF ~(has(2) /\ IsContinuation(at(2))) THEN bad(2)
        ELSE <<(b - 224) * 4096 + (at(1) - 128) * 64 + (at(2) - 128)>>
               \o Utf8Decode(bytes, i + 3)
      ELSE IF b >= 240 /\ b <= 244 THEN
        IF ~second THEN bad(1)
        ELSE IF ~(has(2) /\ IsContinuation(at(2))) THEN bad(2)
        ELSE IF ~(has(3) /\ IsContinuation(at(3))) THEN bad(3)
        ELSE <<(b - 240) * 262144 + (at(1) - 128) * 4096
                 + (at(2) - 128) * 64 + (at(3) - 128)>>
               \o Utf8Decode(bytes, i + 4)
      ELSE bad(1)

\* new TextDecoder().decode(bytes): UTF-8, not fatal, a leading byte order
\* mark is dropped.
TextDecoderDecode(bytes) ==
  IF Len(bytes) >= 3 /\ SubSeq(bytes, 1, 3) = <<239, 187, 191>>
    THEN Utf8Decode(bytes, 4)
    ELSE Utf8Decode(bytes, 1)

\* paddedBytes = new Uint8Array(width); paddedBytes.set(messageBytes.slice(0, width))
PaddedBytes(messageBytes, width) ==
  LET kept == SubSeq(messageBytes, 1, IF Len(messageBytes) < width
                                        THEN Len(messageBytes) ELSE width)
  IN kept \o Zeros(width - Len(kept))

\* BigInt("0x" + the bytes in hex): the number the digits denote
RECURSIVE BigIntOfBytes(_)
BigIntOfBytes(bytes) ==
  IF bytes # <<>> /\ Head(bytes) = 0 THEN BigIntOfBytes(Tail(bytes)) ELSE bytes

\* value.toString(16).padStart(2 * n, "0"), read two hex digits at a time for
\* the first n bytes
BytesOfBigInt(value, n) ==
  SubSeq(Zeros(n - Len(value)) \o value, 1, n)

\* function stringToBigInt64(message: string): bigint
stringToBigInt64(message) ==
  BigIntOfBytes(PaddedBytes(TextEncoderEncode(message), 8))

\* function stringToBigInt(message: string): bigint
stringToBigInt(message) ==
  BigIntOfBytes(PaddedBytes(TextEncoderEncode(message), 32))

\* The encoder written inline in the first useMessenger.sendMessage:
\* BigInt("0x" + hex of messageBytes.slice(0, 32)), with no padding; BigInt("0x")
\* throws a SyntaxError.
InlineEncoderThrows(message) == TextEncoderEncode(message) = <<>>
InlineEncode(message) ==
  LET messageBytes == TextEncoderEncode(message)
  IN BigIntOfBytes(SubSeq(messageBytes, 1, IF Len(messageBytes) < 32
                                             THEN Len(messageBytes) ELSE 32))

\* The decoder written inline in the first useMessenger.refreshInbox: every
\* nonzero byte of the 64 hex digits is kept.
InlineDecode(decrypted) ==
  LET NonZero(b) == b # 0
  IN TextDecoderDecode(SelectSeq(BytesOfBigInt(decrypted, 32), NonZero))

\* bytes.findIndex((b) => b === 0), with -1 turned into the length
RECURSIVE EndIndex(_, _)
EndIndex(bytes, i) ==
  IF i > Len(bytes) THEN Len(bytes)
  ELSE IF bytes[i] = 0 THEN i - 1
  ELSE EndIndex(bytes, i + 1)

\* function bigIntToString(value: bigint): string
bigIntToString(value) ==
  LET bytes == BytesOfBigInt(value, 32)
      endIndex == EndIndex(bytes, 1)
  IN TextDecoderDecode(SubSeq(bytes, 1, endIndex))

\* ---- codec actions: a text is drawn, encoded at a width, decoded again.
\* cCodec = "hooks": useEncrypt and useDecrypt; "inline": the first useMessenger.
CodecInit ==
  /\ cPc = "input"
  /\ cText \in Texts
  /\ \/ cCodec = "hooks" /\ cWidth \in {8, 32}
     \/ cCodec = "inline" /\ cWidth = 32
  /\ cPayload = <<>>
  /\ cDecoded = <<>>

EncodeWith(codec, width, message) ==
  IF codec = "inline" THEN InlineEncode(message)
  ELSE IF width = 8 THEN stringToBigInt64(message)
  ELSE stringToBigInt(message)

EncodeThrows(codec, message) == codec = "inline" /\ InlineEncoderThrows(message)

Encode ==
  /\ cPc = "input"
  /\ IF EncodeThrows(cCodec, cText)
       THEN cPc' = "threw" /\ UNCHANGED cPayload
       ELSE cPc' = "encoded" /\ cPayload' = EncodeWith(cCodec, cWidth, cText)
  /\ UNCHANGED <<cText, cWidth, cCodec, cDecoded, ledgerVars, clientVars>>

DecodeWith(codec, value) ==
  IF codec = "inline" THEN InlineDecode(value) ELSE bigIntToString(value)

Decode ==
  /\ cPc = "encoded"
  /\ cDecoded' = DecodeWith(cCodec, cPayload)
  /\ cPc' = "decoded"
  /\ UNCHANGED <<cText, cWidth, cCodec, cPayload, ledgerVars, clientVars>>

(***************************************************************************)
(* The client: one browser tab with a connected wallet.                    *)
(***************************************************************************)
\* the texts a user types
MsgTexts == {<<104, 105>>, <<105>>}

\* core/fhevm and useFhevm: initialize() ran to the end; resetFheInstance()
\* ---- useWallet.ts
\* const SEPOLIA_CHAIN_ID = 11155111
SEPOLIA_CHAIN_ID == 11155111
\* the chains the wallet may be on: Sepolia and Ethereum mainnet
Chains == {SEPOLIA_CHAIN_ID, 1}

\* The hook's state besides address (userAddress) and signer: isConnected,
\* chainId (0 for null), isConnecting, error ("" for null); signerOf is the
\* account the held signer was created for ("" when signer is null); pc is
\* where the connect call in flight is; providerAccount and providerChain are
\* the account and the chain selected in the wallet.
WalletOf(user) ==
  [isConnected |-> TRUE, chainId |-> SEPOLIA_CHAIN_ID, isConnecting |-> FALSE,
   error |-> "", signerOf |-> user, pc |-> "idle",
   providerAccount |-> user, providerChain |-> SEPOLIA_CHAIN_ID]

InitializeFhevm ==
  /\ ~isInitialized
  /\ isInitialized' = TRUE
  /\ fheInstance' = TRUE
  /\ UNCHANGED <<userAddress, signer, wallet, minted, senderVars, errorVars, loadingVars, readerVars,
                 ledgerVars, codecVars, fhevm, sdkVars>>

resetFheInstance ==
  /\ fheInstance
  /\ fheInstance' = FALSE
  /\ UNCHANGED <<userAddress, signer, wallet, isInitialized, minted, senderVars,
                 errorVars, loadingVars, readerVars, ledgerVars, codecVars, fhevm, sdkVars>>

\* ---- core/fhevm.ts, call by call
\* the callers of initializeFheInstance
InitCallers == {1, 2}

\* let fheInstance = null; let isInitialized = false; no call made.
\* result[c] is the instance the latest call of c returned (0: none so far).
\* created counts the createInstance invocations and returned collects the
\* instances handed to callers, both since the last reset; made counts the
\* instances the SDK has built; stale holds the callers whose call in flight
\* was started before the last reset.
CoreInit ==
  [fheInstance |-> 0, isInitialized |-> FALSE,
   pc |-> [c \in InitCallers |-> "idle"],
   invoked |-> 0, created |-> 0, made |-> 0, returned |-> {},
   stale |-> {}, result |-> [c \in InitCallers |-> 0]]

\* initializeFheInstance() up to its first await: the existing instance is
\* returned, or initSDK() is awaited
CoreInitializeBy(c) ==
  IF core.fheInstance # 0 /\ core.isInitialized
    THEN core' = [core EXCEPT !.pc[c] = "returned",
                              !.returned = @ \cup {core.fheInstance},
                              !.result[c] = core.fheInstance]
    ELSE core' = [core EXCEPT !.pc[c] = "initSDK", !.stale = @ \ {c},
                              !.result[c] = 0]

CoreInitialize ==
  \E c \in InitCallers :
    /\ core.pc[c] \in {"idle", "returned", "threw"}
    /\ CoreInitializeBy(c)
    /\ UNCHANGED <<keysMade, redeemLog, minted, tabVars, senderVars, errorVars, loadingVars,
                   readerVars, ledgerVars, codecVars, fhevm>>

\* await initSDK() settles: it throws, or createInstance(config) is invoked
CoreInitSDKDone ==
  \E c \in InitCallers :
    /\ core.pc[c] = "initSDK"
    /\ \/ core' = [core EXCEPT !.pc[c] = "threw"]
       \/ /\ core.invoked < MaxInits
          /\ core' = [core EXCEPT !.pc[c] = "createInstance",
                                  !.invoked = @ + 1, !.created = @ + 1]
    /\ UNCHANGED <<keysMade, redeemLog, minted, tabVars, senderVars, errorVars, loadingVars,
                   readerVars, ledgerVars, codecVars, fhevm>>

\* await createInstance(config) settles: it throws, or the instance it built
\* is stored in the module and returned
CoreCreateInstanceDone ==
  \E c \in InitCallers :
    /\ core.pc[c] = "createInstance"
    /\ \/ core' = [core EXCEPT !.pc[c] = "threw"]
       \/ core' = [core EXCEPT !.pc[c] = "returned",
                               !.made = @ + 1,
                               !.fheInstance = core.made + 1,
                               !.isInitialized = TRUE,
                               !.returned = @ \cup {core.made + 1},
                               !.result[c] = core.made + 1]
    /\ UNCHANGED <<keysMade, redeemLog, minted, tabVars, senderVars, errorVars, loadingVars,
                   readerVars, ledgerVars, codecVars, fhevm>>

\* export function getFheInstance() / isFheInitialized()
getFheInstance == core.fheInstance
isFheInitialized == core.isInitialized /\ core.fheInstance # 0

\* resetFheInstance(), whether or not an initializeFheInstance is in flight
CoreReset ==
  /\ core' = [core EXCEPT !.fheInstance = 0, !.isInitialized = FALSE,
                          !.created = 0, !.returned = {},
                          !.stale = {c \in InitCallers :
                                      core.pc[c] \in {"initSDK", "createInstance"}}]
  /\ UNCHANGED <<keysMade, redeemLog, minted, tabVars, senderVars, errorVars, loadingVars,
                 readerVars, ledgerVars, codecVars, fhevm>>

\* ---- useFhevm.ts: each caller of initializeFheInstance is a mounted hook
\* calls of initialize made on one hook
MaxCalls == 3

\* no component has mounted the hook yet
FhevmInit ==
  [c \in InitCallers |->
     [status |-> "unmounted", instance |-> 0, error |-> "", calls |-> 0]]

\* useState(getFheInstance()), useState(getFheInstance() ? "ready" : "idle"),
\* useState(null)
FhevmMount ==
  \E c \in InitCallers :
    /\ fhevm[c].status = "unmounted"
    /\ fhevm' = [fhevm EXCEPT ![c].instance = getFheInstance,
                              ![c].status = IF getFheInstance # 0 THEN "ready"
                                            ELSE "idle"]
    /\ UNCHANGED <<core, keysMade, redeemLog, minted, tabVars, senderVars,
                   errorVars, loadingVars, readerVars, ledgerVars, codecVars>>

\* if (status === "loading" || status === "ready") return;
SkipsInitialize_WhileLoadingOnly(status) == status = "loading"

SkipsInitialize(status) == status = "loading" \/ status = "ready"

\* initialize() up to await initializeFheInstance(); status is the one of the
\* render the callback belongs to, which is the latest
FhevmInitialize(c) ==
  /\ fhevm[c].status # "unmounted"
  /\ fhevm[c].calls < MaxCalls
  /\ IF SkipsInitialize(fhevm[c].status)
       THEN /\ fhevm' = [fhevm EXCEPT ![c].calls = @ + 1]
            /\ UNCHANGED core
       ELSE /\ core.pc[c] = "idle"
            /\ fhevm' = [fhevm EXCEPT ![c].calls = @ + 1,
                                      ![c].status = "loading",
                                      ![c].error = ""]
            /\ CoreInitializeBy(c)
  /\ UNCHANGED <<keysMade, redeemLog, minted, tabVars, senderVars,
                 errorVars, loadingVars, readerVars, ledgerVars, codecVars>>

\* a component calls initialize()
initialize == \E c \in InitCallers : FhevmInitialize(c)

\* useMessenger: useEffect(() => { if (isConnected && fhevmStatus === "idle")
\* initializeFhevm(); }, [isConnected, fhevmStatus, initializeFhevm])
AutoInitialize ==
  \E c \in InitCallers :
    /\ wallet.isConnected /\ fhevm[c].status = "idle"
    /\ FhevmInitialize(c)

\* await initializeFheInstance() settles in initialize: setInstance(inst),
\* setStatus("ready"); or the catch block: setError(errorMsg),
\* setStatus("error")
FhevmSettles ==
  \E c \in InitCallers :
    /\ fhevm[c].status # "unmounted"
    /\ core.pc[c] \in {"returned", "threw"}
    /\ IF core.pc[c] = "returned"
         THEN fhevm' = [fhevm EXCEPT ![c].instance = core.result[c],
                                    ![c].status = "ready"]
         ELSE fhevm' = [fhevm EXCEPT ![c].error = "Failed to initialize FHEVM",
                                    ![c].status = "error"]
    /\ core' = [core EXCEPT !.pc[c] = "idle"]
    /\ UNCHANGED <<keysMade, redeemLog, minted, tabVars, senderVars,
                   errorVars, loadingVars, readerVars, ledgerVars, codecVars>>

\* ---- useMessenger.sendMessage(recipient, messageContent)
\* The call returns: its promise resolves with `result`.
SendReturns_Retries(result, encFailed) ==
  /\ sPc' = IF result = FALSE /\ ~encFailed /\ sHandle # 0 THEN "submitting" ELSE "idle"
  /\ sResult' = result
  /\ sEncFailed' = encFailed

SendReturns(result, encFailed) ==
  /\ sPc' = "idle"
  /\ sResult' = result
  /\ sEncFailed' = encFailed

\* if (!encrypted) return false; otherwise contract.sendMessage(...) is called
AfterEncrypt_NoNullCheck(encrypted) ==
  /\ sPc' = "submitting"
  /\ sHandle' = encrypted
  /\ sEncFailed' = (encrypted = 0)
  /\ UNCHANGED sResult

AfterEncrypt(encrypted) ==
  IF encrypted = 0
    THEN SendReturns(FALSE, TRUE) /\ UNCHANGED sHandle
    ELSE /\ sPc' = "submitting"
         /\ sHandle' = encrypted
         /\ UNCHANGED <<sResult, sEncFailed>>

\* From the call to the first await that leaves the tab: the guards,
\* encryptString, stringToBigInt64, and encrypt64 up to input.encrypt().
SendStart ==
  \E recipient \in Address, messageContent \in MsgTexts :
    /\ sPc = "idle"
    /\ Len(minted) < MaxMsgs
    /\ sTo' = recipient
    /\ sText' = messageContent
    /\ sTxs' = 0
    /\ IF ~isInitialized \/ ~signer \/ userAddress = ""
         THEN /\ SendReturns(FALSE, FALSE)
              /\ messageError' = "Not connected or FHEVM not ready"
              /\ UNCHANGED <<sHandle, encryptError, isEncrypting>>
       ELSE IF ~fheInstance
         THEN /\ AfterEncrypt(0)
              /\ messageError' = ""
              /\ encryptError' = "FHEVM not initialized"
              /\ UNCHANGED isEncrypting
       ELSE /\ sPc' = "encrypting"
            /\ sHandle' = 0
            /\ sEncFailed' = FALSE
            /\ messageError' = ""
            /\ encryptError' = ""
            /\ isEncrypting' = TRUE
            /\ UNCHANGED sResult
    /\ UNCHANGED <<minted, tabVars, decryptError, isDecrypting, isLoadingMessages,
                 readerVars, ledgerVars, codecVars, fhevm, sdkVars>>

\* encrypt64: finally { setIsEncrypting(false) }
EncryptFinally == isEncrypting' = FALSE

\* input.encrypt() settles: the backend mints a handle for the payload, or
\* the call throws and encrypt64 returns null.
EncryptDone ==
  /\ sPc = "encrypting"
  /\ \/ /\ minted' = Append(minted, [owner |-> userAddress, text |-> sText,
                                     payload |-> stringToBigInt64(sText)])
        /\ AfterEncrypt(Len(minted) + 1)
        /\ UNCHANGED encryptError
     \/ /\ AfterEncrypt(0)
        /\ encryptError' = "Failed to encrypt"
        /\ UNCHANGED minted
  /\ EncryptFinally
  /\ UNCHANGED <<sTo, sText, sTxs, messageError, decryptError, isDecrypting,
                 isLoadingMessages, tabVars, readerVars,
                 ledgerVars, codecVars, fhevm, sdkVars>>

\* await contract.sendMessage(recipient, handle, proof) settles: it throws
\* before any transaction exists, or the ledger executes the transaction (a
\* revert makes it throw too).
SubmitDone ==
  /\ sPc = "submitting"
  /\ \/ /\ SendReturns(FALSE, sEncFailed)
        /\ messageError' = "Failed to send message"
        /\ UNCHANGED <<sTxs, ledgerVars>>
     \/ /\ sendMessage(userAddress, sTo, sHandle, TRUE)
        /\ sTxs' = sTxs + 1
        /\ IF Rejection(userAddress, sTo) # "ok"
             THEN /\ SendReturns(FALSE, sEncFailed)
                  /\ messageError' = "Failed to send message"
             ELSE /\ sPc' = "waiting"
                  /\ UNCHANGED <<sResult, sEncFailed, messageError>>
        /\ UNCHANGED blockTime
  /\ UNCHANGED <<sTo, sText, sHandle, minted, loadingVars, encryptError, decryptError, tabVars,
                 readerVars, codecVars, fhevm, sdkVars>>

\* await tx.wait() settles: the receipt arrives, or waiting throws.
WaitDone ==
  /\ sPc = "waiting"
  /\ \E receipt \in BOOLEAN :
       /\ SendReturns(receipt, FALSE)
       /\ messageError' = IF receipt THEN messageError ELSE "Failed to send message"
  /\ UNCHANGED <<sTo, sText, sHandle, sTxs, minted, loadingVars, encryptError, decryptError,
                 tabVars, readerVars, ledgerVars, codecVars, fhevm, sdkVars>>

TabInit(user) ==
  /\ userAddress = user
  /\ signer = TRUE
  /\ wallet = WalletOf(user)
  /\ isInitialized = FALSE
  /\ fheInstance = FALSE
  /\ minted = <<>>

SenderIdle ==
  /\ sPc = "idle" /\ sTo = ZeroAddress /\ sText = <<>> /\ sHandle = 0
  /\ sResult = "none" /\ sTxs = 0 /\ sEncFailed = FALSE
  /\ messageError = "" /\ encryptError = "" /\ decryptError = ""
  /\ isEncrypting = FALSE

\* ---- the inbox: refreshInbox and decryptAllInbox
\* "[Encrypted - click to decrypt]"
Placeholder ==
  <<91, 69, 110, 99, 114, 121, 112, 116, 101, 100, 32, 45, 32, 99, 108, 105, 99,
    107, 32, 116, 111, 32, 100, 101, 99, 114, 121, 112, 116, 93>>

\* const durationDays = 7
durationDays == 7

\* export const CONTRACT_ADDRESS
CONTRACT_ADDRESS == This

\* the public keys instance.generateKeypair() may return
PublicKeys == 1..MaxKeys

\* instance.generateKeypair(): the SDK draws a new keypair at every call,
\* the made-th call so far returning the keypair numbered made + 1
generateKeypair_Cached(made) == 1

generateKeypair(made) == made + 1

\* signer.signTypedData(domain, types, message): the signature of `by` over
\* the statement
signTypedData(by, statement) == [by |-> by, over |-> statement]

\* instance.createEIP712(publicKey, contractAddresses, startTimestamp,
\* durationDays): the statement that gets signed, a function of its inputs
createEIP712(publicKey, contractAddresses, startTimestamp, days) ==
  [publicKey |-> publicKey, contractAddresses |-> contractAddresses,
   startTimestamp |-> startTimestamp, durationDays |-> days]

\* the arguments of instance.userDecrypt (the private key and the signature
\* left out)
UserDecryptArgs(pairs, publicKey, contractAddresses, startTimestamp, days) ==
  [pairs |-> pairs, publicKey |-> publicKey,
   contractAddresses |-> contractAddresses, startTimestamp |-> startTimestamp,
   durationDays |-> days]

\* decryptMessages: handles.map((handle) => ({handle, contractAddress: CONTRACT_ADDRESS}))
HandlePairs(handles) ==
  [i \in DOMAIN handles |->
     [handle |-> handles[i], contractAddress |-> CONTRACT_ADDRESS]]

\* What one useDecrypt.decrypt call has done so far.  Time is counted from the
\* moment startTimestamp is read, so startTimestamp is 0.
NoCapability ==
  [handles |-> <<>>, keypairs |-> 0, statements |-> 0, signRequests |-> 0,
   signed |-> FALSE, userDecrypts |-> 0, covered |-> <<>>, submittedAt |-> 0,
   returned |-> {}, user |-> "", index |-> -1, outcome |-> "none",
   publicKey |-> 0, startTimestamp |-> 0, steps |-> <<>>,
   statement |-> createEIP712(0, <<>>, 0, 0),
   redeemed |-> UserDecryptArgs(<<>>, 0, <<>>, 0, 0)]

\* instance.generateKeypair(); instance.createEIP712(...); signer.signTypedData(...)
RequestSignature_PerHandle(handles) ==
  [NoCapability EXCEPT !.handles = handles, !.keypairs = Len(handles),
                       !.statements = Len(handles), !.signRequests = Len(handles)]

RequestSignature_SignsBeforeComposing(handles) ==
  [NoCapability EXCEPT !.handles = handles, !.keypairs = 1, !.statements = 1,
                       !.signRequests = 1,
                       !.steps = <<"generateKeypair", "signTypedData",
                                   "createEIP712">>]

RequestSignature(handles) ==
  [NoCapability EXCEPT !.handles = handles, !.keypairs = 1, !.statements = 1,
                       !.signRequests = 1,
                       !.steps = <<"generateKeypair", "createEIP712",
                                   "signTypedData">>]

\* instance.userDecrypt(handles, ..., startTimestamp, durationDays), called
\* `now` days after startTimestamp was read
Redeem_TimestampReadAgain(call, now) ==
  [call EXCEPT !.signed = TRUE, !.userDecrypts = @ + 1, !.covered = call.handles,
               !.submittedAt = now, !.steps = Append(@, "userDecrypt"),
               !.redeemed = UserDecryptArgs(HandlePairs(call.handles),
                              call.publicKey, <<CONTRACT_ADDRESS>>, now,
                              durationDays)]

Redeem(call, now) ==
  [call EXCEPT !.signed = TRUE, !.userDecrypts = @ + 1, !.covered = call.handles,
               !.submittedAt = now, !.steps = Append(@, "userDecrypt"),
               !.redeemed = UserDecryptArgs(HandlePairs(call.handles),
                              call.publicKey, <<CONTRACT_ADDRESS>>,
                              call.startTimestamp, durationDays)]

\* the validity window of the capability has elapsed
Expired(age) == age > durationDays

\* inbox.filter((msg) => msg.encrypted && msg.handle).map((msg) => msg.handle)
RECURSIVE EncryptedHandles(_)
EncryptedHandles(box) ==
  IF box = <<>> THEN <<>>
  ELSE (IF Head(box).encrypted THEN <<Head(box).handle>> ELSE <<>>)
         \o EncryptedHandles(Tail(box))

\* prev.map((msg) => decryptedMap.has(msg.handle) ? {...} : msg)
ApplyDecrypted_AbsentAsEmpty(prev, decryptedMap) ==
  [i \in DOMAIN prev |->
     [prev[i] EXCEPT !.content = IF prev[i].handle \in DOMAIN decryptedMap
                                   THEN decryptedMap[prev[i].handle] ELSE <<>>,
                     !.encrypted = FALSE]]

ApplyDecrypted(prev, decryptedMap) ==
  [i \in DOMAIN prev |->
     IF prev[i].handle \in DOMAIN decryptedMap
       THEN [prev[i] EXCEPT !.content = decryptedMap[prev[i].handle],
                            !.encrypted = FALSE]
       ELSE prev[i]]

\* decryptToStrings: result.set(handle, bigIntToString(value))
DecryptedStrings(decryptedBigInts) ==
  [h \in DOMAIN decryptedBigInts |-> bigIntToString(decryptedBigInts[h])]

EmptyMap == [h \in {} |-> <<>>]

\* decrypt returned new Map() (instance missing, or the catch block):
\* decryptToStrings maps nothing and decryptAllInbox applies the empty map.
DecryptFailed_ShowsEmptyTexts(prev) ==
  [i \in DOMAIN prev |-> [prev[i] EXCEPT !.content = <<>>, !.encrypted = FALSE]]

DecryptFailed(prev) == ApplyDecrypted(prev, DecryptedStrings(EmptyMap))

\* decryptInboxMessage: prev.map((msg, i) => i === index ? {...} : msg), done
\* only if (decryptedContent)
ApplyAtIndex(prev, index, handle, decryptedMap) ==
  IF handle \in DOMAIN decryptedMap /\ decryptedMap[handle] # <<>>
    THEN [i \in DOMAIN prev |->
            IF i = index + 1
              THEN [prev[i] EXCEPT !.content = decryptedMap[handle],
                                   !.encrypted = FALSE]
              ELSE prev[i]]
    ELSE prev

\* What the caller of decryptMessages does with the map: decryptAllInbox
\* (call.index = -1) or decryptInboxMessage(call.index)
ShowDecrypted(prev, call, decryptedMap) ==
  IF call.index < 0 THEN ApplyDecrypted(prev, decryptedMap)
  ELSE ApplyAtIndex(prev, call.index, call.handles[1], decryptedMap)

\* decryptMessages(handles) up to the first await that leaves the tab: its
\* guard, decryptToStrings, and decrypt up to signer.signTypedData().
DecryptStart(handles, index) ==
  /\ IF ~isInitialized \/ ~signer \/ userAddress = ""
       THEN /\ inbox' = ShowDecrypted(inbox, [handles |-> handles, index |-> index],
                                      EmptyMap)
            /\ UNCHANGED <<dPc, elapsed, dCall, decryptError, keysMade, isDecrypting>>
     ELSE IF ~fheInstance
       THEN /\ decryptError' = "FHEVM not initialized"
            /\ dCall' = [NoCapability EXCEPT !.handles = handles,
                                             !.user = userAddress, !.index = index]
            /\ inbox' = DecryptFailed(inbox)
            /\ UNCHANGED <<dPc, elapsed, keysMade, isDecrypting>>
     ELSE /\ decryptError' = ""
          /\ isDecrypting' = TRUE
          /\ keysMade < MaxKeys
          /\ keysMade' = keysMade + 1
          /\ LET publicKey == generateKeypair(keysMade)
             IN dCall' = [RequestSignature(handles) EXCEPT
                            !.user = userAddress, !.index = index,
                            !.publicKey = publicKey,
                            !.statement = createEIP712(publicKey,
                                            <<CONTRACT_ADDRESS>>, 0, durationDays)]
          /\ dPc' = "signing"
          /\ elapsed' = 0
          /\ UNCHANGED inbox
  /\ UNCHANGED <<rfPc, rfCount, rfMessages, rfUser, messageError, encryptError,
                 isEncrypting, isLoadingMessages, minted,
                 tabVars, senderVars, ledgerVars, codecVars, fhevm, redeemLog, core>>

\* decryptAllInbox up to the first await that leaves the tab
DecryptAllStart ==
  /\ dPc = "idle"
  /\ EncryptedHandles(inbox) # <<>>
  /\ DecryptStart(EncryptedHandles(inbox), -1)

\* decryptInboxMessage(index) up to the first await that leaves the tab
decryptInboxMessage ==
  \E index \in 0..(MaxMsgs - 1) :
    /\ dPc = "idle"
    /\ index < Len(inbox)
    /\ inbox[index + 1].encrypted
    /\ DecryptStart(<<inbox[index + 1].handle>>, index)

\* Wall-clock time passes while the wallet shows the signature request.
Tick ==
  /\ dPc = "signing"
  /\ elapsed < MaxWait * durationDays
  /\ elapsed' = elapsed + durationDays
  /\ UNCHANGED <<inbox, rfPc, rfCount, rfMessages, rfUser, dPc, dCall, errorVars, loadingVars, minted,
                 tabVars, senderVars, ledgerVars, codecVars, fhevm, sdkVars>>

\* decrypt: finally { setIsDecrypting(false) }, run when the call ends
DecryptFinally == isDecrypting' = IF dPc' = "idle" THEN FALSE ELSE isDecrypting

\* await signer.signTypedData(...) settles: with a signature, and userDecrypt
\* is called; or it throws, and decrypt returns an empty map.
SignDone ==
  /\ dPc = "signing"
  /\ \/ /\ dCall' = Redeem(dCall, elapsed)
        /\ redeemLog' = Append(redeemLog,
                           [publicKey |-> dCall.publicKey,
                            signature |-> signTypedData(dCall.user, dCall.statement)])
        /\ dPc' = "redeeming"
        /\ UNCHANGED <<inbox, elapsed, decryptError>>
     \/ /\ decryptError' = "Failed to decrypt"
        /\ inbox' = DecryptFailed(inbox)
        /\ dPc' = "idle"
        /\ elapsed' = 0
        /\ UNCHANGED <<dCall, redeemLog>>
  /\ DecryptFinally
  /\ UNCHANGED <<rfPc, rfCount, rfMessages, rfUser, messageError, encryptError,
                 isEncrypting, isLoadingMessages, minted,
                 tabVars, senderVars, ledgerVars, codecVars, fhevm, keysMade, core>>

\* The handles among `handles` the backend may decrypt for `user`.
Granted(handles, user) == {h \in Range(handles) : <<h, user>> \in acl}

\* why instance.userDecrypt may throw
RedeemFailures == {"BackendUnavailable", "Unauthorized"}

\* await instance.userDecrypt(...) settles: it throws (the catch block keeps
\* "Failed to decrypt: " and the message of the error, and returns new Map()),
\* or it returns the payloads of some of the covered handles the user has a
\* grant for.
RedeemDone ==
  /\ dPc = "redeeming"
  /\ \/ /\ decryptError' = "Failed to decrypt"
        /\ inbox' = DecryptFailed(inbox)
        /\ \E why \in RedeemFailures : dCall' = [dCall EXCEPT !.outcome = why]
     \/ /\ \E S \in SUBSET Granted(dCall.covered, dCall.user) :
             LET decryptedResults == [h \in S |-> minted[h].payload]
             IN /\ inbox' = ShowDecrypted(inbox, dCall,
                                         DecryptedStrings(decryptedResults))
                /\ dCall' = [dCall EXCEPT !.returned = S, !.outcome = "ok"]
        /\ UNCHANGED decryptError
  /\ dPc' = "idle"
  /\ elapsed' = 0
  /\ DecryptFinally
  /\ UNCHANGED <<rfPc, rfCount, rfMessages, rfUser, messageError, encryptError,
                 isEncrypting, isLoadingMessages, minted,
                 tabVars, senderVars, ledgerVars, codecVars, fhevm, sdkVars>>

\* refreshInbox up to await contract.getInboxCount(userAddress)
RefreshStart ==
  /\ rfPc = "idle"
  /\ signer /\ userAddress # ""
  /\ rfPc' = "count"
  /\ messageError' = ""
  /\ isLoadingMessages' = TRUE
  /\ rfUser' = userAddress
  /\ UNCHANGED <<inbox, rfCount, rfMessages, dPc, elapsed, dCall, encryptError, isEncrypting, isDecrypting,
                
                 decryptError, minted, tabVars, senderVars, ledgerVars, codecVars, fhevm, sdkVars>>

\* the closure of a refreshInbox call lives until the call ends
RefreshClosure == rfUser' = IF rfPc' = "idle" THEN "" ELSE rfUser

\* refreshInbox: finally { setIsLoadingMessages(false) }, run when the call ends
RefreshFinally ==
  isLoadingMessages' = IF rfPc' = "idle" THEN FALSE ELSE isLoadingMessages

\* refreshInbox ends: setInbox(messages) on success, the error otherwise
RefreshEnds_ClearsOnFailure(ok, messages) ==
  /\ rfPc' = "idle"
  /\ rfCount' = 0
  /\ rfMessages' = <<>>
  /\ inbox' = messages
  /\ messageError' = IF ok THEN messageError ELSE "Failed to load messages"

RefreshEnds_KeepsOld(ok, messages) ==
  /\ rfPc' = "idle"
  /\ rfCount' = 0
  /\ rfMessages' = <<>>
  /\ inbox' = IF ok /\ inbox = <<>> THEN messages ELSE inbox
  /\ messageError' = IF ok THEN messageError ELSE "Failed to load messages"

RefreshEnds(ok, messages) ==
  /\ rfPc' = "idle"
  /\ rfCount' = 0
  /\ rfMessages' = <<>>
  /\ inbox' = IF ok THEN messages ELSE inbox
  /\ messageError' = IF ok THEN messageError ELSE "Failed to load messages"

\* await contract.getInboxCount(userAddress) settles
RefreshCount ==
  /\ rfPc = "count"
  /\ \/ RefreshEnds(FALSE, <<>>)
     \/ IF getInboxCount(rfUser) = 0
          THEN RefreshEnds(TRUE, <<>>)
          ELSE /\ rfPc' = "reading"
               /\ rfCount' = getInboxCount(rfUser)
               /\ UNCHANGED <<rfMessages, inbox, messageError>>
  /\ RefreshClosure
  /\ RefreshFinally
  /\ UNCHANGED <<dPc, elapsed, dCall, encryptError, isEncrypting, isDecrypting,
                 decryptError, minted, tabVars,
                 senderVars, ledgerVars, codecVars, fhevm, sdkVars>>

\* await contract.getInboxMessage(userAddress, i) settles, i = messages.length
RefreshRead ==
  /\ rfPc = "reading"
  /\ \/ RefreshEnds(FALSE, <<>>)
     \/ LET i == Len(rfMessages)
            got == getInboxMessage(rfUser, i)
            messages == Append(rfMessages,
                          [sender |-> got[1], content |-> Placeholder,
                           timestamp |-> got[3], encrypted |-> TRUE,
                           handle |-> got[2]])
        IN /\ got # "revert"
           /\ IF i + 1 < rfCount
                THEN /\ rfMessages' = messages
                     /\ UNCHANGED <<rfPc, rfCount, inbox, messageError>>
                ELSE RefreshEnds(TRUE, messages)
  /\ RefreshClosure
  /\ RefreshFinally
  /\ UNCHANGED <<dPc, elapsed, dCall, encryptError, isEncrypting, isDecrypting,
                 decryptError, minted, tabVars,
                 senderVars, ledgerVars, codecVars, fhevm, sdkVars>>

\* ---- the single-file useMessenger: its own decryptMessages, which has no
\* error state
\* decryptAllInbox up to the first await that leaves the tab
SingleDecryptAllStart ==
  /\ dPc = "idle"
  /\ EncryptedHandles(inbox) # <<>>
  /\ LET handles == EncryptedHandles(inbox)
     IN IF ~fheInstance \/ ~signer \/ userAddress = ""
          THEN /\ inbox' = ApplyDecrypted(inbox, EmptyMap)
               /\ UNCHANGED <<dPc, elapsed, dCall, keysMade>>
          ELSE /\ keysMade < MaxKeys
               /\ keysMade' = keysMade + 1
               /\ LET publicKey == generateKeypair(keysMade)
                  IN dCall' = [RequestSignature(handles) EXCEPT
                                 !.user = userAddress, !.index = -1,
                                 !.publicKey = publicKey,
                                 !.statement = createEIP712(publicKey,
                                                 <<CONTRACT_ADDRESS>>, 0, durationDays)]
               /\ dPc' = "signing"
               /\ elapsed' = 0
               /\ UNCHANGED inbox
  /\ UNCHANGED <<rfPc, rfCount, rfMessages, rfUser, errorVars, loadingVars, minted,
                 tabVars, senderVars, ledgerVars, codecVars, fhevm, redeemLog, core>>

\* await signer.signTypedData(...) settles: with a signature, and userDecrypt
\* is called; or it throws, the catch block logs to the console and
\* decryptMessages returns new Map()
SingleSignDone ==
  /\ dPc = "signing"
  /\ \/ /\ dCall' = Redeem(dCall, elapsed)
        /\ redeemLog' = Append(redeemLog,
                           [publicKey |-> dCall.publicKey,
                            signature |-> signTypedData(dCall.user, dCall.statement)])
        /\ dPc' = "redeeming"
        /\ UNCHANGED <<inbox, elapsed>>
     \/ /\ inbox' = ApplyDecrypted(inbox, EmptyMap)
        /\ dPc' = "idle"
        /\ elapsed' = 0
        /\ UNCHANGED <<dCall, redeemLog>>
  /\ UNCHANGED <<rfPc, rfCount, rfMessages, rfUser, errorVars, loadingVars, minted,
                 tabVars, senderVars, ledgerVars, codecVars, fhevm, keysMade, core>>

\* await instance.userDecrypt(...) settles: it throws (the catch block logs to
\* the console and decryptMessages returns new Map()), or it returns the
\* payloads of some of the covered handles the user has a grant for.
SingleRedeemDone ==
  /\ dPc = "redeeming"
  /\ \/ /\ inbox' = ApplyDecrypted(inbox, EmptyMap)
        /\ \E why \in RedeemFailures : dCall' = [dCall EXCEPT !.outcome = why]
     \/ \E S \in SUBSET Granted(dCall.covered, dCall.user) :
          LET decryptedResults == [h \in S |-> minted[h].payload]
          IN /\ inbox' = ApplyDecrypted(inbox, DecryptedStrings(decryptedResults))
             /\ dCall' = [dCall EXCEPT !.returned = S, !.outcome = "ok"]
  /\ dPc' = "idle"
  /\ elapsed' = 0
  /\ UNCHANGED <<rfPc, rfCount, rfMessages, rfUser, errorVars, loadingVars, minted,
                 tabVars, senderVars, ledgerVars, codecVars, fhevm, sdkVars>>

\* ---- the first useMessenger: refreshInbox decrypts each message it reads
\* "[Encrypted]"
FirstPlaceholder == <<91, 69, 110, 99, 114, 121, 112, 116, 101, 100, 93>>

\* refreshInbox up to await contract.getInboxCount(userAddress)
FirstRefreshStart ==
  /\ rfPc = "idle"
  /\ fheInstance /\ signer /\ userAddress # ""
  /\ rfPc' = "count"
  /\ messageError' = ""
  /\ dCall' = NoCapability
  /\ rfUser' = userAddress
  /\ UNCHANGED <<inbox, rfCount, rfMessages, dPc, elapsed, loadingVars, encryptError,
                 decryptError, minted, tabVars, senderVars, ledgerVars, codecVars, fhevm, sdkVars>>

\* await contract.getInboxMessage(userAddress, i) settles; then
\* instance.generateKeyPair(), instance.createEIP712Message(encryptedHandle,
\* keypair.publicKey), and signer.signTypedData(...) is awaited
FirstRefreshRead ==
  /\ rfPc = "reading"
  /\ \/ RefreshEnds(FALSE, <<>>) /\ UNCHANGED <<dCall, keysMade>>
     \/ LET got == getInboxMessage(rfUser, Len(rfMessages))
            publicKey == generateKeypair(keysMade)
        IN /\ got # "revert"
           /\ keysMade < MaxKeys
           /\ keysMade' = keysMade + 1
           /\ dCall' = [dCall EXCEPT !.handles = <<got[2]>>,
                                     !.keypairs = @ + 1, !.statements = @ + 1,
                                     !.signRequests = @ + 1,
                                     !.user = rfUser,
                                     !.publicKey = publicKey,
                                     !.statement = [handle |-> got[2],
                                                    publicKey |-> publicKey]]
           /\ rfPc' = "signing"
           /\ UNCHANGED <<rfCount, rfMessages, inbox, messageError>>
  /\ RefreshClosure
  /\ UNCHANGED <<dPc, elapsed, loadingVars, encryptError, decryptError, minted, tabVars,
                 senderVars, ledgerVars, codecVars, fhevm, redeemLog, core>>

\* messages.push({sender, content, timestamp, encrypted}); the loop goes on or
\* setInbox(messages)
FirstPush(content, encrypted) ==
  LET got == getInboxMessage(rfUser, Len(rfMessages))
      messages == Append(rfMessages,
                    [sender |-> got[1], content |-> content,
                     timestamp |-> got[3], encrypted |-> encrypted])
  IN IF Len(messages) < rfCount
       THEN /\ rfMessages' = messages
            /\ rfPc' = "reading"
            /\ UNCHANGED <<rfCount, inbox, messageError>>
       ELSE RefreshEnds(TRUE, messages)

\* await signer.signTypedData(...) settles: instance.userDecrypt(keypair,
\* signature, encryptedHandle) is called, or the inner catch keeps "[Encrypted]"
FirstSignDone ==
  /\ rfPc = "signing"
  /\ \/ /\ dCall' = [dCall EXCEPT !.signed = TRUE, !.userDecrypts = @ + 1,
                                  !.covered = dCall.handles]
        /\ redeemLog' = Append(redeemLog,
                           [publicKey |-> dCall.publicKey,
                            signature |-> signTypedData(dCall.user, dCall.statement)])
        /\ rfPc' = "redeeming"
        /\ UNCHANGED <<rfCount, rfMessages, inbox, messageError>>
     \/ /\ FirstPush(FirstPlaceholder, TRUE)
        /\ UNCHANGED <<dCall, redeemLog>>
  /\ RefreshClosure
  /\ UNCHANGED <<dPc, elapsed, loadingVars, encryptError, decryptError, minted, tabVars,
                 senderVars, ledgerVars, codecVars, fhevm, keysMade, core>>

\* await instance.userDecrypt(...) settles: the payload is decoded inline, or
\* the inner catch keeps "[Encrypted]"
FirstRedeemDone ==
  /\ rfPc = "redeeming"
  /\ \/ FirstPush(FirstPlaceholder, TRUE)
     \/ /\ Granted(dCall.covered, dCall.user) # {}
        /\ FirstPush(InlineDecode(minted[dCall.covered[1]].payload), FALSE)
  /\ RefreshClosure
  /\ UNCHANGED <<dPc, elapsed, dCall, loadingVars, encryptError, decryptError, minted, tabVars,
                 senderVars, ledgerVars, codecVars, fhevm, sdkVars>>

\* Another user's client completes a send to this tab's user: encryptString,
\* then the sendMessage transaction.
RemoteSenders == {"alice"}
RemoteSend ==
  \E from \in RemoteSenders \ {userAddress}, text \in MsgTexts :
    /\ StoredMessages < MaxMsgs
    /\ minted' = Append(minted, [owner |-> from, text |-> text,
                                 payload |-> stringToBigInt64(text)])
    /\ sendMessage(from, userAddress, Len(minted) + 1, TRUE)
    /\ UNCHANGED <<blockTime, tabVars, senderVars, errorVars, loadingVars, readerVars, codecVars, fhevm, sdkVars>>

\* the users whose clients send while this tab does
ConcurrentSenders == {"alice", "carol"}
\* the users they send to
ConcurrentRecipients == {"bob"}

\* Any other client (another user's, or a second one of this tab's user)
\* completes a send of its own to any recipient.
RemoteSendAny ==
  \E from \in ConcurrentSenders, to \in ConcurrentRecipients, text \in MsgTexts :
    /\ to # from
    /\ Len(minted) < MaxMsgs
    /\ minted' = Append(minted, [owner |-> from, text |-> text,
                                 payload |-> stringToBigInt64(text)])
    /\ sendMessage(from, to, Len(minted) + 1, TRUE)
    /\ UNCHANGED <<blockTime, tabVars, senderVars, errorVars, loadingVars, readerVars, codecVars, fhevm, sdkVars>>

\* Another client running the first useMessenger completes a send to this
\* tab's user.
RemoteSendFirst ==
  \E from \in RemoteSenders \ {userAddress}, text \in MsgTexts :
    /\ StoredMessages < MaxMsgs
    /\ minted' = Append(minted, [owner |-> from, text |-> text,
                                 payload |-> InlineEncode(text)])
    /\ sendMessage(from, userAddress, Len(minted) + 1, TRUE)
    /\ UNCHANGED <<blockTime, tabVars, senderVars, errorVars, loadingVars, readerVars, codecVars, fhevm, sdkVars>>

\* Another client, one that encodes with the 256-bit stringToBigInt, completes
\* a send to one of the accounts of this tab's wallet.
TabAccounts == {"bob", "carol"}
RemoteSend256 ==
  \E from \in RemoteSenders, to \in TabAccounts, text \in MsgTexts :
    /\ StoredMessages < MaxMsgs
    /\ minted' = Append(minted, [owner |-> from, text |-> text,
                                 payload |-> stringToBigInt(text)])
    /\ sendMessage(from, to, Len(minted) + 1, TRUE)
    /\ UNCHANGED <<blockTime, tabVars, senderVars, errorVars, loadingVars, readerVars, codecVars, fhevm, sdkVars>>

\* ---- useWallet; a refreshInbox in flight keeps the signer and the
\* userAddress of its closure
\* window.ethereum "accountsChanged": handleAccountsChanged(accounts)
handleAccountsChanged ==
  \E accounts \in {<<>>} \cup {<<u>> : u \in TabAccounts} :
    /\ IF accounts = <<>>
         THEN /\ userAddress' = "" /\ signer' = FALSE
              /\ wallet' = [wallet EXCEPT !.isConnected = FALSE, !.signerOf = "",
                                          !.providerAccount = ""]
         ELSE /\ userAddress' = accounts[1] /\ UNCHANGED signer
              /\ wallet' = [wallet EXCEPT !.isConnected = TRUE,
                                          !.providerAccount = accounts[1]]
    /\ UNCHANGED <<isInitialized, fheInstance, minted, senderVars, errorVars, loadingVars,
                   readerVars, ledgerVars, codecVars, fhevm, sdkVars>>

\* useMessenger.connect, the wallet answering with `account`
connect ==
  \E account \in TabAccounts :
    /\ ~signer
    /\ signer' = TRUE
    /\ userAddress' = account
    /\ wallet' = WalletOf(account)
    /\ UNCHANGED <<isInitialized, fheInstance, minted, senderVars, errorVars, loadingVars,
                   readerVars, ledgerVars, codecVars, fhevm, sdkVars>>

\* useMessenger.disconnect
disconnect ==
  /\ userAddress' = ""
  /\ signer' = FALSE
  /\ wallet' = [wallet EXCEPT !.isConnected = FALSE, !.chainId = 0,
                              !.signerOf = "", !.error = ""]
  /\ inbox' = <<>>
  /\ messageError' = ""
  /\ UNCHANGED <<isInitialized, fheInstance, minted, senderVars, loadingVars, encryptError,
                 decryptError, rfPc, rfCount, rfMessages, rfUser, dPc, elapsed,
                 dCall,
                 ledgerVars, codecVars, fhevm, sdkVars>>

\* ---- useWallet.connect, await by await
\* what the wallet hook leaves alone
WalletFrame ==
  UNCHANGED <<isInitialized, fheInstance, minted, senderVars, errorVars, loadingVars,
              readerVars, ledgerVars, codecVars, fhevm, sdkVars>>

\* useWallet state before any connect, the wallet being on `chain` with
\* `account` selected
WalletOff(account, chain) ==
  [isConnected |-> FALSE, chainId |-> 0, isConnecting |-> FALSE,
   error |-> "", signerOf |-> "", pc |-> "idle",
   providerAccount |-> account, providerChain |-> chain]

\* connect ends without connecting: setError(why), setIsConnecting(false)
WalletFails_KeepsConnecting(why) ==
  /\ wallet' = [wallet EXCEPT !.error = why, !.pc = "idle"]
  /\ UNCHANGED <<userAddress, signer>>

WalletFails(why) ==
  /\ wallet' = [wallet EXCEPT !.error = why, !.isConnecting = FALSE, !.pc = "idle"]
  /\ UNCHANGED <<userAddress, signer>>

\* connect() up to await window.ethereum.request({method: "eth_requestAccounts"})
WalletConnect ==
  /\ wallet.pc = "idle"
  /\ wallet' = [wallet EXCEPT !.isConnecting = TRUE, !.error = "",
                              !.pc = "eth_requestAccounts"]
  /\ UNCHANGED <<userAddress, signer>>
  /\ WalletFrame

\* eth_requestAccounts settles: the user refuses (the outer catch), or
\* grants an account
WalletRequestAccountsDone ==
  /\ wallet.pc = "eth_requestAccounts"
  /\ \/ WalletFails("Failed to connect wallet")
     \/ /\ \E account \in TabAccounts :
             /\ wallet.providerAccount \in {"", account}
             /\ wallet' = [wallet EXCEPT !.providerAccount = account,
                                         !.pc = "eth_chainId"]
        /\ UNCHANGED <<userAddress, signer>>
  /\ WalletFrame

\* eth_chainId settles: setChainId(currentChainId); on another chain than
\* Sepolia wallet_switchEthereumChain is requested
WalletChainIdDone ==
  /\ wallet.pc = "eth_chainId"
  /\ \/ WalletFails("Failed to connect wallet")
     \/ /\ wallet' = [wallet EXCEPT
                        !.chainId = wallet.providerChain,
                        !.pc = IF wallet.providerChain # SEPOLIA_CHAIN_ID
                                 THEN "wallet_switchEthereumChain"
                                 ELSE "getSigner"]
        /\ UNCHANGED <<userAddress, signer>>
  /\ WalletFrame

\* wallet_switchEthereumChain settles: the wallet switched; or it throws
\* with code 4902 (chain unknown to the wallet) and wallet_addEthereumChain
\* is requested; or it throws with another code
WalletSwitchDone ==
  /\ wallet.pc = "wallet_switchEthereumChain"
  /\ \/ /\ wallet' = [wallet EXCEPT !.providerChain = SEPOLIA_CHAIN_ID,
                                     !.pc = "recheck"]
        /\ UNCHANGED <<userAddress, signer>>
     \/ /\ wallet' = [wallet EXCEPT !.pc = "wallet_addEthereumChain"]
        /\ UNCHANGED <<userAddress, signer>>
     \/ WalletFails("Please switch to Sepolia testnet in MetaMask")
  /\ WalletFrame

\* the second eth_chainId settles: setChainId(newChainId), and the call goes
\* on only on Sepolia; a throw lands in the catch of the switch
WalletRecheckDone ==
  /\ wallet.pc = "recheck"
  /\ \/ WalletFails("Please switch to Sepolia testnet in MetaMask")
     \/ IF wallet.providerChain # SEPOLIA_CHAIN_ID
          THEN /\ wallet' = [wallet EXCEPT !.chainId = wallet.providerChain,
                                           !.error = "Failed to switch to Sepolia testnet",
                                           !.isConnecting = FALSE, !.pc = "idle"]
               /\ UNCHANGED <<userAddress, signer>>
          ELSE /\ wallet' = [wallet EXCEPT !.chainId = wallet.providerChain,
                                           !.pc = "getSigner"]
               /\ UNCHANGED <<userAddress, signer>>
  /\ WalletFrame

\* wallet_addEthereumChain settles: it throws; or the wallet has added
\* Sepolia, and has or has not made it its current chain
WalletAddChainDone ==
  /\ wallet.pc = "wallet_addEthereumChain"
  /\ \/ WalletFails("Please add Sepolia network to MetaMask")
     \/ /\ \E chain \in {wallet.providerChain, SEPOLIA_CHAIN_ID} :
             wallet' = [wallet EXCEPT !.providerChain = chain, !.pc = "getSigner"]
        /\ UNCHANGED <<userAddress, signer>>
  /\ WalletFrame

\* provider.getSigner() and signer.getAddress() settle: setSigner(signer),
\* setAddress(address), setIsConnected(true), setError(null); or the outer
\* catch
WalletGetSignerDone ==
  /\ wallet.pc = "getSigner"
  /\ \/ WalletFails("Failed to connect wallet")
     \/ /\ wallet.providerAccount # ""
        /\ signer' = TRUE
        /\ userAddress' = wallet.providerAccount
        /\ wallet' = [wallet EXCEPT !.signerOf = wallet.providerAccount,
                                    !.isConnected = TRUE, !.error = "",
                                    !.isConnecting = FALSE, !.pc = "idle"]
  /\ WalletFrame

\* window.ethereum "chainChanged": handleChainChanged(chainIdHex); the user
\* changes the wallet's chain while no connect is in flight
handleChainChanged ==
  \E chain \in Chains \ {wallet.providerChain} :
    /\ wallet.pc = "idle"
    /\ wallet' = [wallet EXCEPT !.providerChain = chain, !.chainId = chain,
                                !.error = IF chain # SEPOLIA_CHAIN_ID
                                            THEN "Please switch to Sepolia testnet"
                                            ELSE ""]
    /\ UNCHANGED <<userAddress, signer>>
    /\ WalletFrame

ReaderIdle ==
  /\ inbox = <<>> /\ rfPc = "idle" /\ rfCount = 0 /\ rfMessages = <<>>
  /\ rfUser = ""
  /\ dPc = "idle" /\ elapsed = 0 /\ dCall = NoCapability
  /\ isDecrypting = FALSE /\ isLoadingMessages = FALSE
  /\ keysMade = 0 /\ redeemLog = <<>>
  /\ core = CoreInit
  /\ fhevm = FhevmInit

CodecIdle ==
  /\ cPc = "off" /\ cText = <<>> /\ cWidth = 0 /\ cCodec = "hooks"
  /\ cPayload = <<>> /\ cDecoded = <<>>

(***************************************************************************)
(* The specifications.                                                     *)
(***************************************************************************)
Init == LedgerInit /\ CodecIdle /\ TabInit("") /\ SenderIdle /\ ReaderIdle
Next == SendTx \/ NextBlock
Spec == Init /\ [][Next]_vars

\* the ledger with callers of getInboxHandles
NextHandles == SendTx \/ HandlesCall
SpecHandles == Init /\ [][NextHandles]_vars

InitCodec == LedgerInit /\ CodecInit /\ TabInit("") /\ SenderIdle /\ ReaderIdle
NextCodec == Encode \/ Decode
SpecCodec == InitCodec /\ [][NextCodec]_vars

\* alice's tab sending over the ledger
InitSend ==
  LedgerInit /\ CodecIdle /\ TabInit("alice") /\ SenderIdle /\ ReaderIdle
NextSend ==
  \/ InitializeFhevm \/ resetFheInstance
  \/ SendStart \/ EncryptDone \/ SubmitDone \/ WaitDone
  \/ NextBlock
SpecSend == InitSend /\ [][NextSend]_vars

\* bob's tab reading and decrypting what alice's client sends him
InitMessenger ==
  LedgerInit /\ CodecIdle /\ TabInit("bob") /\ SenderIdle /\ ReaderIdle
NextMessenger ==
  \/ InitializeFhevm \/ resetFheInstance
  \/ RemoteSend
  \/ RefreshStart \/ RefreshCount \/ RefreshRead
  \/ DecryptAllStart \/ Tick \/ SignDone \/ RedeemDone
SpecMessenger == InitMessenger /\ [][NextMessenger]_vars

\* bob's tab running the first useMessenger, its SDK instance created
InitFirst ==
  /\ LedgerInit /\ CodecIdle /\ SenderIdle /\ ReaderIdle
  /\ userAddress = "bob" /\ signer = TRUE
  /\ wallet = WalletOf("bob")
  /\ isInitialized = TRUE /\ fheInstance = TRUE
  /\ minted = <<>>
NextFirst ==
  \/ RemoteSendFirst
  \/ FirstRefreshStart \/ RefreshCount \/ FirstRefreshRead
  \/ FirstSignDone \/ FirstRedeemDone
SpecFirst == InitFirst /\ [][NextFirst]_vars

\* alice's tab, with FHEVM ready, sending while other clients send too
InitSenders ==
  /\ LedgerInit /\ CodecIdle /\ SenderIdle /\ ReaderIdle
  /\ userAddress = "alice" /\ signer = TRUE
  /\ wallet = WalletOf("alice")
  /\ isInitialized = TRUE /\ fheInstance = TRUE
  /\ minted = <<>>
NextSenders ==
  \/ RemoteSendAny
  \/ SendStart \/ EncryptDone \/ SubmitDone \/ WaitDone
SpecSenders == InitSenders /\ [][NextSenders]_vars

\* bob's tab running the single-file useMessenger, its SDK instance created
InitSingle ==
  /\ LedgerInit /\ CodecIdle /\ SenderIdle /\ ReaderIdle
  /\ userAddress = "bob" /\ signer = TRUE
  /\ wallet = WalletOf("bob")
  /\ isInitialized = TRUE /\ fheInstance = TRUE
  /\ minted = <<>>
NextSingle ==
  \/ RemoteSend256
  \/ RefreshStart \/ RefreshCount \/ RefreshRead
  \/ SingleDecryptAllStart \/ SingleSignDone \/ SingleRedeemDone
SpecSingle == InitSingle /\ [][NextSingle]_vars

\* the callers of core/fhevm.ts in one tab
NextCore ==
  \/ CoreInitialize \/ CoreInitSDKDone \/ CoreCreateInstanceDone \/ CoreReset
SpecCore == InitSend /\ [][NextCore]_vars

\* a tab whose wallet holds two accounts, with FHEVM ready
InitAccounts ==
  /\ LedgerInit /\ CodecIdle /\ SenderIdle /\ ReaderIdle
  /\ userAddress = "bob" /\ signer = TRUE
  /\ wallet = WalletOf("bob")
  /\ isInitialized = TRUE /\ fheInstance = TRUE
  /\ minted = <<>>
NextAccounts ==
  \/ RemoteSend256
  \/ handleAccountsChanged \/ connect \/ disconnect
  \/ RefreshStart \/ RefreshCount \/ RefreshRead
  \/ decryptInboxMessage \/ DecryptAllStart \/ SignDone \/ RedeemDone
SpecAccounts == InitAccounts /\ [][NextAccounts]_vars

\* a tab not yet connected, its wallet on any chain with bob selected
InitWallet ==
  /\ LedgerInit /\ CodecIdle /\ SenderIdle /\ ReaderIdle
  /\ userAddress = "" /\ signer = FALSE
  /\ \E chain \in Chains : wallet = WalletOff("bob", chain)
  /\ isInitialized = FALSE /\ fheInstance = FALSE
  /\ minted = <<>>
NextWallet ==
  \/ WalletConnect \/ WalletRequestAccountsDone \/ WalletChainIdDone
  \/ WalletSwitchDone \/ WalletRecheckDone \/ WalletAddChainDone
  \/ WalletGetSignerDone
  \/ handleChainChanged \/ handleAccountsChanged \/ disconnect
SpecWallet == InitWallet /\ [][NextWallet]_vars

\* bob's tab, with FHEVM ready, decrypting what clients of the composed
\* useMessenger sent: one message at a time or all at once
\* The hooks of one tab from a wallet that is not connected: connect until
\* the wallet is connected, the FHEVM initialization, and then either a
\* session in which the tab sends (and refreshes an inbox nobody writes to) or
\* a session in which it has encrypted nothing yet when it receives, refreshes
\* and decrypts single messages.
TabHasEncrypted == \E h \in DOMAIN minted : minted[h].owner = userAddress
NextLoading ==
  \/ (~wallet.isConnected /\ WalletConnect) \/ WalletRequestAccountsDone
  \/ WalletChainIdDone \/ WalletSwitchDone \/ WalletRecheckDone
  \/ WalletAddChainDone \/ WalletGetSignerDone
  \/ InitializeFhevm
  \/ (userAddress # "" /\ sPc = "idle" /\ ~TabHasEncrypted /\ RemoteSend)
  \/ ((StoredMessages = 0 \/ TabHasEncrypted) /\ SendStart)
  \/ EncryptDone \/ SubmitDone \/ WaitDone
  \/ RefreshStart \/ RefreshCount \/ RefreshRead
  \/ decryptInboxMessage \/ SignDone \/ RedeemDone
SpecLoading == InitWallet /\ [][NextLoading]_vars

\* Two components that mount useFhevm over the one core/fhevm module.
NextFhevm ==
  \/ FhevmMount \/ initialize \/ AutoInitialize
  \/ CoreInitSDKDone \/ CoreCreateInstanceDone \/ FhevmSettles
  \/ CoreReset
SpecFhevm == InitSend /\ [][NextFhevm]_vars

NextDecrypt ==
  \/ RemoteSend
  \/ RefreshStart \/ RefreshCount \/ RefreshRead
  \/ decryptInboxMessage \/ DecryptAllStart \/ SignDone \/ RedeemDone
SpecDecrypt == InitAccounts /\ [][NextDecrypt]_vars

\* the same tab with its wallet's accounts unchanged: its user disconnects
\* and connects through useMessenger only
NextDisconnect ==
  \/ RemoteSend256
  \/ connect \/ disconnect
  \/ RefreshStart \/ RefreshCount \/ RefreshRead
  \/ decryptInboxMessage \/ DecryptAllStart \/ SignDone \/ RedeemDone
SpecDisconnect == InitAccounts /\ [][NextDisconnect]_vars

(***************************************************************************)
(* Properties of the ledger (specification Spec).                       *)
(***************************************************************************)
Storage == <<_inbox, _outbox, acl, allowLog, events>>
Boxes == {_inbox[u] : u \in Address} \cup {_outbox[u] : u \in Address}

\* C1: sendMessage(to, ...) by sender s is rejected with InvalidRecipient when
\* to is the zero address and with CannotMessageSelf when to = s; a rejected
\* call adds no inbox or outbox entry, makes no grant and emits no event.
C1_RejectedWithoutMutation ==
  [][/\ lastCall'.toZero => lastCall'.result = "InvalidRecipient"
     /\ (lastCall'.toSelf /\ ~lastCall'.toZero)
          => lastCall'.result = "CannotMessageSelf"
     /\ lastCall'.result \in {"InvalidRecipient", "CannotMessageSelf"}
          => UNCHANGED Storage]_vars

\* a self-addressed call was rejected after a message had been stored
C1_Witness ==
  /\ lastCall.toSelf
  /\ lastCall.result = "CannotMessageSelf"
  /\ StoredMessages > 0

\* C2: a successful sendMessage from alice to bob with handle h raises
\* getInboxCount(bob) from p to p + 1 with getInboxMessage(bob, p) = (alice, h,
\* t), raises getOutboxCount(alice) from q to q + 1 with getOutboxMessage(alice,
\* q) = (bob, h, t), and leaves every other inbox and outbox unchanged.
C2_SendAppendsToBothBoxes ==
  [][events' # events =>
       LET e == events'[Len(events')]
           h == allowLog'[Len(allowLog')][1]
           p == getInboxCount(e.to)
           q == getOutboxCount(e.from)
       IN /\ InboxCountIn(_inbox', e.to) = p + 1
          /\ InboxMessageIn(_inbox', e.to, p) = <<e.from, h, e.timestamp>>
          /\ OutboxCountIn(_outbox', e.from) = q + 1
          /\ OutboxMessageIn(_outbox', e.from, q) = <<e.to, h, e.timestamp>>
          /\ e.timestamp = blockTime
          /\ \A u \in Address \ {e.to} : _inbox'[u] = _inbox[u]
          /\ \A u \in Address \ {e.from} : _outbox'[u] = _outbox[u]]_vars

\* bob has received two messages, one of them from carol, in a later block
C2_Witness ==
  /\ getInboxCount("bob") = 2
  /\ getOutboxCount("carol") = 1
  /\ getInboxMessage("bob", 1)[3] > 0

\* C3: the ledger is append-only and index-stable: count(u, b) never
\* decreases and readAt(u, b, i) keeps returning the same counterparty, handle
\* and timestamp for every index i once below the count.
C3_AppendOnly ==
  [][\A u \in Address :
       /\ getInboxCount(u)' >= getInboxCount(u)
       /\ getOutboxCount(u)' >= getOutboxCount(u)
       /\ \A i \in 0..(getInboxCount(u) - 1) :
            getInboxMessage(u, i)' = getInboxMessage(u, i)
       /\ \A i \in 0..(getOutboxCount(u) - 1) :
            getOutboxMessage(u, i)' = getOutboxMessage(u, i)]_vars

\* one inbox holds two different records
C3_Witness ==
  \E u \in Users :
    /\ getInboxCount(u) = 2
    /\ getInboxMessage(u, 0) # getInboxMessage(u, 1)

C11_ReadAtBounds ==
  \A u \in Address, i \in 0..(MaxMsgs + 1) :
    /\ (getInboxMessage(u, i) = "revert") <=> (i >= getInboxCount(u))
    /\ (getOutboxMessage(u, i) = "revert") <=> (i >= getOutboxCount(u))
    /\ i < Len(_inbox[u]) =>
         getInboxMessage(u, i) = <<_inbox[u][i + 1].sender,
                                   _inbox[u][i + 1].encryptedContent,
                                   _inbox[u][i + 1].timestamp>>
    /\ i < Len(_outbox[u]) =>
         getOutboxMessage(u, i) = <<_outbox[u][i + 1].recipient,
                                    _outbox[u][i + 1].encryptedContent,
                                    _outbox[u][i + 1].timestamp>>

C11_Witness ==
  /\ getInboxCount("bob") = 2
  /\ getInboxMessage("bob", 1) # "revert"
  /\ getInboxMessage("bob", 2) = "revert"
  /\ getOutboxCount("alice") = 1
  /\ getOutboxMessage("alice", 0) # "revert"
  /\ getOutboxMessage("alice", 1) = "revert"
  /\ getInboxCount("carol") = 0
  /\ getInboxMessage("carol", 0) = "revert"

\* C23: getInboxHandles(u) returns a sequence as long as getInboxCount(u)
\* whose i-th element is the handle of getInboxMessage(u, i), and a returned
\* array stays the snapshot of its call: it has the length the inbox had at
\* the call and remains the first handles of the inbox whatever is appended
\* later; every call lists the inbox from index 0.
C23_HandlesAreSnapshot ==
  /\ \A u \in Address :
       /\ Len(getInboxHandles(u)) = getInboxCount(u)
       /\ \A i \in 0..(getInboxCount(u) - 1) :
            getInboxHandles(u)[i + 1] = getInboxMessage(u, i)[2]
  /\ handlesCall.made =>
       /\ Len(handlesCall.handles) = handlesCall.atCount
       /\ handlesCall.atCount <= getInboxCount(handlesCall.user)
       /\ \A i \in 0..(handlesCall.atCount - 1) :
            handlesCall.handles[i + 1] = getInboxMessage(handlesCall.user, i)[2]

\* a returned array of one handle, and a different handle appended to the
\* same inbox after the call
C23_Witness ==
  /\ handlesCall.made
  /\ handlesCall.atCount = 1
  /\ getInboxCount(handlesCall.user) = 2
  /\ getInboxMessage(handlesCall.user, 1)[2] # handlesCall.handles[1]

\* the number of records held by the boxes of the users in S
RECURSIVE EntriesIn(_, _)
EntriesIn(stored, S) ==
  IF S = {} THEN 0
  ELSE LET u == CHOOSE x \in S : TRUE
       IN Len(stored[u]) + EntriesIn(stored, S \ {u})

\* C24: a sendMessage that stores a message emits exactly one MessageSent
\* event, made of the stored record's sender, recipient and timestamp and of
\* nothing else; a step that stores nothing emits none; so the number of
\* events always equals the number of stored messages.
C24_OneEventPerStoredMessage ==
  /\ [](Len(events) = EntriesIn(_inbox, Address))
  /\ [][IF _inbox' # _inbox
          THEN /\ Len(events') = Len(events) + 1
               /\ SubSeq(events', 1, Len(events)) = events
               /\ \E u \in Address :
                    /\ Len(_inbox'[u]) = Len(_inbox[u]) + 1
                    /\ LET e == events'[Len(events')]
                           m == _inbox'[u][Len(_inbox'[u])]
                       IN /\ DOMAIN e = {"from", "to", "timestamp"}
                          /\ e.from = m.sender
                          /\ e.to = m.recipient
                          /\ e.timestamp = m.timestamp
          ELSE events' = events]_vars

\* one message stored and announced, then a send rejected
C24_Witness ==
  /\ Len(events) = 1
  /\ EntriesIn(_inbox, Address) = 1
  /\ lastCall.result = "InvalidRecipient"

\* C30: the ledger's addressing invariant: no stored record has the zero
\* address as recipient or its sender as recipient, every record of inbox[u]
\* has recipient u and every record of outbox[u] has sender u.
C30_AddressingInvariant ==
  \A u \in Address :
    /\ \A i \in DOMAIN _inbox[u] :
         /\ _inbox[u][i].recipient = u
         /\ _inbox[u][i].recipient # ZeroAddress
         /\ _inbox[u][i].sender # _inbox[u][i].recipient
    /\ \A i \in DOMAIN _outbox[u] :
         /\ _outbox[u][i].sender = u
         /\ _outbox[u][i].recipient # ZeroAddress
         /\ _outbox[u][i].sender # _outbox[u][i].recipient

\* two users have exchanged messages, and a send to the zero address has
\* just been rejected
C30_Witness ==
  /\ getInboxCount("alice") = 1
  /\ getInboxCount("bob") = 1
  /\ getInboxMessage("alice", 0)[1] = "bob"
  /\ getInboxMessage("bob", 0)[1] = "alice"
  /\ lastCall.toZero

(***************************************************************************)
(* Properties of the codec (specification SpecCodec).                  *)
(***************************************************************************)
\* C5: codec round trip.  For every text whose UTF-8 encoding is at most L
\* bytes long and holds no zero byte, decoding the payload obtained by encoding
\* it at width L (stringToBigInt64 for L = 8, stringToBigInt for L = 32) with
\* bigIntToString returns exactly the text.
C5_RoundTrip ==
  (/\ cPc = "decoded"
   /\ cCodec = "hooks"
   /\ Len(TextEncoderEncode(cText)) <= cWidth
   /\ 0 \notin Range(TextEncoderEncode(cText)))
    => cDecoded = cText
\* C12: encode never raises an error; the payload is the big-endian number
\* of the first L UTF-8 bytes of the text, right-padded with zero bytes to L
\* bytes, hence a non-negative integer below 2^(8L).
C12_EncodeTruncatesAndPads ==
  cPc \in {"encoded", "threw", "decoded"} =>
    LET messageBytes == TextEncoderEncode(cText)
        expected == [i \in 1..cWidth |->
                       IF i <= Len(messageBytes) THEN messageBytes[i] ELSE 0]
    IN /\ cPc # "threw"
       /\ Len(cPayload) <= cWidth
       /\ BytesOfBigInt(cPayload, cWidth) = expected

\* The bytes that precede the first zero byte in the n-byte big-endian
\* rendering of a payload (the whole rendering when no byte is zero).
PrefixBeforeZero(value, n) ==
  LET bytes == BytesOfBigInt(value, n)
      zeroAt == {i \in 1..n : bytes[i] = 0}
      end == IF zeroAt = {} THEN n
             ELSE (CHOOSE i \in zeroAt : \A j \in zeroAt : i <= j) - 1
  IN SubSeq(bytes, 1, end)

\* A byte array is valid UTF-8 when it is the encoding of what it decodes to.
IsValidUtf8(bytes) == TextEncoderEncode(Utf8Decode(bytes, 1)) = bytes

\* C13: decode (bigIntToString) returns a text only when the bytes preceding
\* the first zero byte of the payload are valid UTF-8; otherwise it fails, and
\* no text with replaced bytes is returned.
C13_InvalidEncodingFails ==
  (cPc = "decoded" /\ cCodec = "hooks") =>
    /\ IsValidUtf8(PrefixBeforeZero(cPayload, 32))
    /\ Replacement \notin Range(cDecoded)

\* C14: decode returns exactly the UTF-8 decoding of the bytes that precede
\* the first zero byte in the W/8-byte big-endian rendering of the payload
\* (the whole buffer when no byte is zero); no byte after the first zero byte
\* contributes to the text.
C14_DecodeStopsAtFirstZero ==
  cPc = "decoded" =>
    cDecoded = TextDecoderDecode(PrefixBeforeZero(cPayload, cWidth))

(***************************************************************************)
(* Properties of the inbox (specification SpecMessenger).                  *)
(***************************************************************************)
\* C6: end to end with L = 8, when the backend returns the payload that was
\* encrypted for "hi", the message whose handle is in the result map is shown
\* decrypted with the text "hi".
C6_EndToEndShowsText ==
  [][(dPc = "redeeming" /\ dPc' = "idle") =>
       \A i \in DOMAIN inbox' :
         (/\ inbox'[i].handle \in dCall'.returned
          /\ minted[inbox'[i].handle].text = <<104, 105>>)
           => /\ ~inbox'[i].encrypted
              /\ inbox'[i].content = <<104, 105>>]_vars

\* C7: a shown message changes only in the step that ends userDecrypt with its
\* handle in the result map; every other message, in particular one whose
\* handle is absent from the map, keeps encrypted = true and its content.
C7_AbsentStaysEncrypted ==
  [][~(rfPc # "idle" /\ rfPc' = "idle") =>
       /\ Len(inbox') = Len(inbox)
       /\ \A i \in DOMAIN inbox :
            (dPc # "redeeming" \/ inbox[i].handle \notin dCall'.returned)
              => inbox'[i] = inbox[i]]_vars

C7_Witness ==
  /\ dPc = "idle"
  /\ dCall.handles = <<1, 2>>
  /\ dCall.returned = {1}
  /\ Len(inbox) = 2
  /\ ~inbox[1].encrypted
  /\ inbox[2].handle = 2 /\ inbox[2].encrypted /\ inbox[2].content = Placeholder

C9_NoExpiredSubmission ==
  dCall.userDecrypts > 0 => ~Expired(dCall.submittedAt)

\* C15: a decrypt call whose capability redemption fails (FHE instance
\* missing, signature refused, userDecrypt throwing for an unreachable
\* backend, a denied or an expired capability) decodes nothing: the step in
\* which it fails leaves every inbox message with the encrypted flag and the
\* content it had, and its result map is empty.
C15_FailedRedemptionDecodesNothing ==
  [][(\/ dPc # "idle" /\ dPc' = "idle" /\ decryptError' # ""
      \/ dPc = "idle" /\ dPc' = "idle" /\ dCall' # dCall)
       => /\ inbox' = inbox
          /\ dCall'.returned = {}]_vars

C15_Witness ==
  /\ dPc = "idle"
  /\ decryptError = "Failed to decrypt"
  /\ dCall.userDecrypts = 1
  /\ Len(dCall.handles) = 2
  /\ Len(inbox) = 2
  /\ \A i \in DOMAIN inbox : inbox[i].encrypted /\ inbox[i].content = Placeholder

\* C16: decrypt results are never mixed across requests: every inbox message
\* marked decrypted carries the decoding of the payload the backend holds for
\* that message's own handle.
C16_NoMixedResults ==
  \A i \in DOMAIN inbox :
    ~inbox[i].encrypted =>
      inbox[i].content = bigIntToString(minted[inbox[i].handle].payload)

\* The map a decrypt call returned to its caller.
ResultMap(call) == [h \in call.returned |-> minted[h].payload]

\* C17: the caller of decrypt can tell a failed redemption (backend
\* unreachable, access denied) from a successful one that decrypted no
\* handle: a call whose userDecrypt failed does not return what an empty
\* success returns, the empty map.
C17_FailuresDistinguishable ==
  (dPc = "idle" /\ dCall.outcome \in RedeemFailures) =>
    ResultMap(dCall) # EmptyMap

\* C18: refreshInbox is a ledger-only projection: none of its steps
\* generates a keypair, requests a signature or calls userDecrypt, and the
\* records it puts in the inbox are, in ledger index order, marked encrypted
\* and carry the handle the ledger holds at their index.
C18_RefreshIsLedgerOnly ==
  [][(rfPc' # rfPc \/ rfMessages' # rfMessages) =>
       /\ dCall'.keypairs <= dCall.keypairs
       /\ dCall'.signRequests <= dCall.signRequests
       /\ dCall'.userDecrypts <= dCall.userDecrypts
       /\ (rfPc' = "idle" /\ messageError' = "") =>
            /\ Len(inbox') = rfCount
            /\ \A i \in DOMAIN inbox' :
                 /\ "handle" \in DOMAIN inbox'[i]
                 /\ inbox'[i].encrypted
                 /\ inbox'[i].handle = _inbox[userAddress][i].encryptedContent
                 /\ inbox'[i].sender = _inbox[userAddress][i].sender]_vars

\* C19: a capability is redeemed only for what it was composed for: the
\* public key, the contract list, the start timestamp and the duration passed
\* to userDecrypt are those of the statement that was signed, and every
\* (handle, contract) pair submitted names a contract of that list.
C19_RedeemedAsComposed ==
  dCall.userDecrypts > 0 =>
    /\ dCall.redeemed.publicKey = dCall.statement.publicKey
    /\ dCall.redeemed.contractAddresses = dCall.statement.contractAddresses
    /\ dCall.redeemed.startTimestamp = dCall.statement.startTimestamp
    /\ dCall.redeemed.durationDays = dCall.statement.durationDays
    /\ \A i \in DOMAIN dCall.redeemed.pairs :
         dCall.redeemed.pairs[i].contractAddress
           \in Range(dCall.statement.contractAddresses)

C19_Witness ==
  /\ dCall.userDecrypts = 1
  /\ dCall.submittedAt > 0
  /\ Len(dCall.redeemed.pairs) = 2
  /\ dCall.statement.publicKey = 2

\* The steps of a capability request, in order.
CapabilitySteps ==
  <<"generateKeypair", "createEIP712", "signTypedData", "userDecrypt">>

IsPrefix(s, t) == Len(s) <= Len(t) /\ SubSeq(t, 1, Len(s)) = s

\* C20: a capability request moves only forward: the steps a decrypt call
\* has taken are always an initial part of generateKeypair, createEIP712,
\* signTypedData, userDecrypt (so the statement is composed after the keypair
\* exists, the signature is requested after the statement is composed,
\* userDecrypt is called only with the signature, and no step is taken
\* twice), and while the call is in flight steps are only added.
C20_CapabilityMovesForward ==
  [][/\ IsPrefix(dCall'.steps, CapabilitySteps)
     /\ dCall'.userDecrypts > 0 => dCall'.signed
     /\ dPc # "idle" => IsPrefix(dCall.steps, dCall'.steps)]_vars

C20_Witness ==
  /\ dPc = "idle"
  /\ dCall.steps = CapabilitySteps
  /\ dCall.outcome = "ok"
  /\ dCall.returned # {}

\* C21: every capability uses a freshly generated keypair: across the decrypt
\* calls of a run, retries after a failed redemption included, no public key
\* and no signature appears in more than one userDecrypt call.
C21_KeypairNeverReused ==
  \A i, j \in DOMAIN redeemLog :
    i # j => /\ redeemLog[i].publicKey # redeemLog[j].publicKey
             /\ redeemLog[i].signature # redeemLog[j].signature

C21_Witness ==
  /\ Len(redeemLog) = 2
  /\ dPc = "idle"
  /\ decryptError = "Failed to decrypt"
  /\ dCall.userDecrypts = 1

\* C29: a refreshInbox running while messages are appended to the inbox it
\* reads never asks the ledger for an index at or beyond the inbox's length,
\* and when it succeeds it installs exactly the records at indices 0..c-1, in
\* order, c being the count it read at its start; what was appended after the
\* count was read is not installed.
C29_RefreshInstallsCountedPrefix ==
  /\ [](rfPc = "reading" =>
          /\ Len(rfMessages) < rfCount
          /\ rfCount <= getInboxCount(rfUser)
          /\ getInboxMessage(rfUser, Len(rfMessages)) # "revert")
  /\ [][(rfPc \in {"count", "reading"} /\ rfPc' = "idle" /\ messageError' = "") =>
          /\ Len(inbox') = (IF rfPc = "count" THEN 0 ELSE rfCount)
          /\ Len(inbox') <= getInboxCount(rfUser)
          /\ \A i \in 0..(Len(inbox') - 1) :
               LET got == getInboxMessage(rfUser, i)
               IN /\ inbox'[i + 1].sender = got[1]
                  /\ inbox'[i + 1].handle = got[2]
                  /\ inbox'[i + 1].timestamp = got[3]
                  /\ inbox'[i + 1].encrypted]_vars

\* a refreshInbox that counted one message is reading while the ledger
\* inbox already holds a second one
C29_Witness ==
  /\ rfPc = "reading"
  /\ rfCount = 1
  /\ getInboxCount(rfUser) = 2

(***************************************************************************)
(* Properties of concurrent senders (specification SpecSenders).          *)
(***************************************************************************)
\* The handles of the stored messages in the order the ledger executed their
\* sendMessage transactions: each execution grants its handle to the contract
\* once.
ExecutedHandles ==
  LET ToContract(g) == g[2] = This
      granted == SelectSeq(allowLog, ToContract)
  IN [k \in DOMAIN granted |-> granted[k][1]]

\* The stored messages in the order of execution, rebuilt from the event log
\* and the grants.
ExecutionLog ==
  [k \in DOMAIN events |->
     [sender |-> events[k].from, recipient |-> events[k].to,
      encryptedContent |-> ExecutedHandles[k],
      timestamp |-> events[k].timestamp]]

\* C22: whatever the order in which the clients started their sends, a box
\* lists its messages in the order the ledger executed them: inbox[u] is the
\* execution log restricted to recipient u and outbox[u] is the execution log
\* restricted to sender u, so an append executed earlier has a strictly lower
\* index than one executed later.
C22_IndexOrderIsExecutionOrder ==
  /\ Len(ExecutedHandles) = Len(events)
  /\ \A u \in Address :
       LET To(m) == m.recipient = u
           From(m) == m.sender = u
       IN /\ _inbox[u] = SelectSeq(ExecutionLog, To)
          /\ _outbox[u] = SelectSeq(ExecutionLog, From)

\* alice's tab encrypted its message first (handle 1), another client's send
\* to bob, started later, was executed first
C22_Witness ==
  /\ Len(minted) = 2 /\ minted[1].owner = "alice" /\ minted[2].owner = "carol"
  /\ getInboxCount("bob") = 2
  /\ getInboxMessage("bob", 0)[2] = 2
  /\ getInboxMessage("bob", 1)[2] = 1

\* how many entries of a box are the record m
Occurrences(box, m) == Cardinality({i \in DOMAIN box : box[i] = m})

\* C25: every message the ledger accepted is held exactly once by its
\* recipient's inbox and exactly once by its sender's outbox, as the same
\* (sender, recipient, handle, timestamp) record, and by no other box; the
\* boxes hold nothing else, so the inboxes together hold as many entries as
\* the outboxes together.
C25_StoredOnceInEachBox ==
  /\ \A k \in DOMAIN ExecutionLog :
       LET m == ExecutionLog[k]
       IN \A u \in Address :
            /\ Occurrences(_inbox[u], m) = IF u = m.recipient THEN 1 ELSE 0
            /\ Occurrences(_outbox[u], m) = IF u = m.sender THEN 1 ELSE 0
  /\ \A u \in Address :
       /\ Range(_inbox[u]) \subseteq Range(ExecutionLog)
       /\ Range(_outbox[u]) \subseteq Range(ExecutionLog)
  /\ EntriesIn(_inbox, Address) = EntriesIn(_outbox, Address)

\* two messages of two senders, both in bob's inbox, one in each outbox
C25_Witness ==
  /\ getInboxCount("bob") = 2
  /\ getOutboxCount("alice") = 1
  /\ getOutboxCount("carol") = 1
  /\ sPc = "idle" /\ sTxs = 1

(***************************************************************************)
(* Properties of the single-file useMessenger (specification SpecSingle). *)
(***************************************************************************)
\* C26: a backend failure is surfaced to the caller: once a decrypt call has
\* ended because userDecrypt threw, an error is set, so that the empty result
\* is not all the caller gets; once encryptString has returned null, an error
\* is set.
C26_BackendFailureSurfaced ==
  /\ (dPc = "idle" /\ dCall.outcome \in RedeemFailures) => decryptError # ""
  /\ (sPc = "idle" /\ sEncFailed) => encryptError # ""

(***************************************************************************)
(* Properties of core/fhevm.ts (specification SpecCore).                  *)
(***************************************************************************)
\* C27: the SDK instance is created once: between two resets createInstance
\* has been invoked at most once, however the initializeFheInstance calls
\* overlap, and the calls that completed all returned the same instance.
C27_CreatedOnce ==
  /\ core.created <= 1
  /\ Cardinality(core.returned) <= 1

(***************************************************************************)
(* Properties of disconnecting (specification SpecDisconnect).            *)
(***************************************************************************)
\* C28: once disconnect has emptied the inbox, the inbox stays empty while
\* the tab is disconnected: no refreshInbox can start then, so no step of a
\* call that was in flight at the disconnect puts a message into the inbox.
\* (Here a tab without signer has been disconnected by disconnect.)
C28_EmptyWhileDisconnected ==
  [][(~signer /\ inbox = <<>>) => inbox' = <<>>]_vars

(***************************************************************************)
(* Properties of sending (specification SpecSend).                         *)
(***************************************************************************)
\* C10: if encoding or encryption fails during a send (encryptString returns
\* null, the encrypt call having thrown or not), the ledger's sendMessage is
\* never invoked for that send, no inbox or outbox entry is appended, and the
\* send returns false.
C10_NoSendAfterFailedEncrypt ==
  [][sEncFailed' =>
       /\ sTxs' = 0
       /\ sPc' = "idle"
       /\ sResult' = FALSE
       /\ UNCHANGED <<_inbox, _outbox, lastCall>>]_vars

\* an encryption failed after an earlier send had stored a message
C10_Witness ==
  /\ sEncFailed
  /\ sResult = FALSE
  /\ fheInstance
  /\ StoredMessages = 1

(***************************************************************************)
(* Properties of decrypting one message or all (specification SpecDecrypt). *)
(***************************************************************************)
\* C31: decryptInboxMessage and decryptAllInbox agree: when the userDecrypt
\* of a decryptInboxMessage call returns the payload of the message at its
\* index, the inbox becomes what decryptAllInbox would make of the same
\* result: that message shown decrypted with the decoded text, whatever the
\* decoded text is.
C31_SingleAgreesWithBatch ==
  [][(/\ dPc = "redeeming" /\ dPc' = "idle"
      /\ dCall'.outcome = "ok"
      /\ dCall.index >= 0 /\ dCall.index < Len(inbox)
      /\ inbox[dCall.index + 1].handle = dCall.handles[1]
      /\ dCall.handles[1] \in dCall'.returned)
       => LET decryptedResults == [h \in dCall'.returned |-> minted[h].payload]
          IN inbox' = ApplyDecrypted(inbox, DecryptedStrings(decryptedResults))]_vars

(***************************************************************************)
(* Properties of the wallet hook (specification SpecAccounts).            *)
(***************************************************************************)
\* C32: whenever the wallet hook reports isConnected and holds a signer, the
\* signer is the one of the reported address.
C32_SignerOfReportedAddress ==
  (wallet.isConnected /\ signer) => wallet.signerOf = userAddress

(***************************************************************************)
(* Properties of resetting core/fhevm.ts (specification SpecCore).        *)
(***************************************************************************)
\* C33: after resetFheInstance the module holds no instance until a call of
\* initializeFheInstance started after the reset completes: a step of a call
\* that was in flight at the reset leaves getFheInstance() null and
\* isFheInitialized() false.
C33_ResetHoldsAgainstCallsInFlight ==
  [][\A c \in InitCallers :
       (c \in core.stale /\ core'.pc[c] # core.pc[c] /\ getFheInstance = 0)
         => (getFheInstance' = 0 /\ ~isFheInitialized')]_vars

(***************************************************************************)
(* Properties of one send call (specification SpecSend).                  *)
(***************************************************************************)
\* C34: one sendMessage call submits at most one ledger transaction and so
\* stores at most one message: a message is stored only by the first
\* transaction of a call, a transaction is submitted only right after the
\* call's encryption, and a call whose append failed or whose wait failed
\* ends returning false with the error set, without submitting again.
C34_AtMostOneAppendPerSend ==
  /\ [](sTxs <= 1)
  /\ [][/\ events' # events =>
             (Len(events') = Len(events) + 1 /\ sTxs = 0 /\ sTxs' = 1)
        /\ (sPc' = "submitting" /\ sPc # "submitting") => sPc = "encrypting"
        /\ (sPc \in {"submitting", "waiting"} /\ sPc' = "idle" /\ sResult' = FALSE)
             => (messageError' = "Failed to send message" /\ sTxs' <= 1)]_vars

\* the transaction of a send stored its message, waiting for its receipt
\* failed, and the call returned false with the error set
C34_Witness ==
  /\ sPc = "idle"
  /\ sTxs = 1
  /\ sResult = FALSE
  /\ messageError = "Failed to send message"
  /\ StoredMessages = 1
  /\ getOutboxCount("alice") = 1

(***************************************************************************)
(* Properties of connecting (specification SpecWallet).                   *)
(***************************************************************************)
\* C35: a connect call that ends connected (signer set, isConnected true, no
\* error) ends with the wallet on Sepolia, whichever path it took.
C35_ConnectedOnlyOnSepolia ==
  [][(/\ wallet.pc = "getSigner" /\ wallet'.pc = "idle"
      /\ wallet'.isConnected /\ signer' /\ wallet'.error = "")
       => wallet'.providerChain = SEPOLIA_CHAIN_ID]_vars

(***************************************************************************)
(* Properties of a failing refresh (specification SpecMessenger).         *)
(***************************************************************************)
\* C36: a refreshInbox whose ledger read fails leaves the installed inbox as
\* it was and reports an error: a refreshInbox ends either with the error set
\* and the inbox unchanged, or without error and with all the messages it
\* counted; one that ends before it has read them all ends the first way, so
\* that no partially built list is installed.
C36_FailedRefreshKeepsInbox ==
  [][(rfPc \in {"count", "reading"} /\ rfPc' = "idle") =>
       /\ \/ messageError' = "Failed to load messages" /\ inbox' = inbox
          \/ /\ messageError' = ""
             /\ Len(inbox') = (IF rfPc = "count" THEN 0 ELSE rfCount)
       /\ (rfPc = "reading" /\ Len(rfMessages) + 1 < rfCount)
            => (messageError' = "Failed to load messages" /\ inbox' = inbox)]_vars

\* a refreshInbox had installed one message; a later one, which counted two,
\* failed
C36_Witness ==
  /\ rfPc = "idle"
  /\ messageError = "Failed to load messages"
  /\ Len(inbox) = 1
  /\ getInboxCount(userAddress) = 2


\* ---- Properties of the payload layout (specification SpecCodec) ----

\* C37: for every message of 1 to L bytes (L = W/8), the payload is the
\* big-endian integer of an L-byte buffer holding the message bytes
\* left-aligned: the first message byte is the most significant byte of the
\* payload and every byte below the message is zero padding.
C37_MessageLeftAligned ==
  LET messageBytes == TextEncoderEncode(cText)
      buffer == BytesOfBigInt(cPayload, cWidth)
  IN (cPc \in {"encoded", "decoded"}
      /\ Len(messageBytes) >= 1 /\ Len(messageBytes) <= cWidth)
       => /\ Len(cPayload) <= cWidth
          /\ buffer[1] = messageBytes[1]
          /\ \A i \in 1..Len(messageBytes) : buffer[i] = messageBytes[i]
          /\ \A i \in (Len(messageBytes) + 1)..cWidth : buffer[i] = 0


\* ---- Properties of the loading flags (specification SpecLoading) ----

\* const isLoading = isConnecting || isEncrypting || isDecrypting || isLoadingMessages
isLoading ==
  wallet.isConnecting \/ isEncrypting \/ isDecrypting \/ isLoadingMessages

\* C38: every operation that raises a loading flag (wallet connect, encrypt,
\* decrypt, refreshInbox) lowers it again on every exit path, success, error
\* or early return: a flag is up only while its operation is in flight, and
\* once no operation is in flight the combined isLoading is false.
C38_FlagsLoweredOnEveryExit ==
  /\ [](/\ wallet.isConnecting => wallet.pc # "idle"
        /\ isEncrypting => sPc = "encrypting"
        /\ isDecrypting => dPc # "idle"
        /\ isLoadingMessages => rfPc # "idle"
        /\ (wallet.pc = "idle" /\ sPc = "idle" /\ dPc = "idle" /\ rfPc = "idle")
             => ~isLoading)
  /\ [][/\ (wallet.pc # "idle" /\ wallet'.pc = "idle") => ~wallet'.isConnecting
        /\ (sPc = "encrypting" /\ sPc' # "encrypting") => ~isEncrypting'
        /\ (dPc # "idle" /\ dPc' = "idle") => ~isDecrypting'
        /\ (rfPc # "idle" /\ rfPc' = "idle") => ~isLoadingMessages']_vars

\* The tab is connected and at rest after an encryption, a decryption and a
\* refresh that each ended in their catch block.
C38_Witness ==
  /\ wallet.isConnected /\ wallet.pc = "idle"
  /\ sPc = "idle" /\ dPc = "idle" /\ rfPc = "idle"
  /\ encryptError = "Failed to encrypt"
  /\ decryptError = "Failed to decrypt"
  /\ messageError = "Failed to load messages"
  /\ ~isLoading


\* ---- Properties of the useFhevm status (specification SpecFhevm) ----

\* the moves of the status the hook's code can make
StatusMoves ==
  {<<"idle", "loading">>, <<"loading", "ready">>, <<"loading", "error">>,
   <<"error", "loading">>}

====
